---- MODULE Spec2Model ----
(***************************************************************************)
(* Model of the off-chain core of the SVM CLOB: the order book             *)
(* (crates/order-book), the matching engine (crates/matching-engine) and   *)
(* the request handlers that feed it (crates/rpc-server).                  *)
(*                                                                         *)
(* The engine runs every mutation under the book's write lock, so each     *)
(* handler is one atomic action.  The record `last` holds what the most    *)
(* recent request did (the order the engine journaled, the trades it       *)
(* returned, the book before it, and one entry per iteration of the        *)
(* matching loop); the handler's reply (Respond) clears it.                *)
(***************************************************************************)
EXTENDS Integers, Sequences, FiniteSets, TLC

----------------------------------------------------------------------------
(* Bounds of the model *)

\* limit prices are 1..MaxPrice ticks
MaxPrice == 2
\* request quantities are 0..MaxQty lots
MaxQty == 2
\* orders that may rest are sent while fewer than MaxResting orders rest
MaxResting == 2
\* the wall clock (seconds) runs from 0 to MaxTime
MaxTime == 1
\* requests are accepted while sequence_number < MaxSeq
MaxSeq == 3
\* broadcast::channel(1000) is a ring of 1000 updates and the sleep beside
\* recv() lasts 30 seconds: the ring of the model holds ChannelCapacity
\* updates and its sleep lasts PingSeconds ticks
ChannelCapacity == 2
PingSeconds == 2
\* the updates sent and the subscriptions held in one run
MaxUpdates == 3
MaxSubscriptions == 2

----------------------------------------------------------------------------
(* Configuration of the market (OrderBook config handed to MatchingEngine::new) *)

tick_size == 1
min_order_size == 1
is_paused == FALSE

----------------------------------------------------------------------------
(* Domain types (crates/types) *)

Bid == "Bid"
Ask == "Ask"
OrderSide == {Bid, Ask}

Limit == "Limit"
Market == "Market"
PostOnly == "PostOnly"
OrderType == {Limit, Market, PostOnly}

Open == "Open"
PartiallyFilled == "PartiallyFilled"
Filled == "Filled"
Cancelled == "Cancelled"
Expired == "Expired"
OrderStatus == {Open, PartiallyFilled, Filled, Cancelled, Expired}

DecrementAndCancel == "DecrementAndCancel"
CancelProvide == "CancelProvide"
CancelTake == "CancelTake"
CancelBoth == "CancelBoth"
SelfTradeBehavior == {DecrementAndCancel, CancelProvide, CancelTake, CancelBoth}

GoodTillCancelled == "GoodTillCancelled"
ImmediateOrCancel == "ImmediateOrCancel"
FillOrKill == "FillOrKill"
GoodTillTime == "GoodTillTime"
TimeInForce == {GoodTillCancelled, ImmediateOrCancel, FillOrKill, GoodTillTime}

Owners == {"alice", "bob"}
\* one id more than can rest: some id is always free
OrderIds == 1..(MaxResting + 1)

\* u64::MAX as the price bound of a market buy: above every price of the model
U64Max == MaxPrice + 1

\* The fields of Order that the book and the engine read from a resting
\* order, and client_order_id, which they never read.  order_type,
\* time_in_force, self_trade_behavior and expiry_timestamp are read from the
\* incoming order only, never from a resting one, and are kept on the
\* incoming order alone.
Resting(o) ==
  [order_id |-> o.order_id, owner |-> o.owner, price |-> o.price,
   quantity |-> o.quantity, remaining_quantity |-> o.remaining_quantity,
   timestamp |-> o.timestamp, client_order_id |-> o.client_order_id,
   side |-> o.side, status |-> o.status]

PriceLevel(p, q, n) == [price |-> p, quantity |-> q, order_count |-> n]

TradeExecution(maker, taker, qty, t) ==
  [maker_order_id |-> maker.order_id, taker_order_id |-> taker.order_id,
   price |-> maker.price, quantity |-> qty, timestamp |-> t,
   maker_side |-> maker.side]

----------------------------------------------------------------------------
(* Helpers *)

Min(a, b) == IF a <= b THEN a ELSE b

Without(f, k) == [x \in DOMAIN f \ {k} |-> f[x]]

With(f, k, v) == [x \in DOMAIN f \cup {k} |-> IF x = k THEN v ELSE f[x]]

RECURSIVE Ascending(_)
\* the elements of a finite set of numbers, smallest first (BTreeMap key order)
Ascending(S) ==
  IF S = {} THEN <<>>
  ELSE LET m == CHOOSE x \in S : \A y \in S : x <= y
       IN  <<m>> \o Ascending(S \ {m})

Reverse(s) == [i \in 1..Len(s) |-> s[Len(s) + 1 - i]]

RECURSIVE SumQty(_, _)
SumQty(s, i) == IF i > Len(s) THEN 0 ELSE s[i].quantity + SumQty(s, i + 1)

\* every ordering of a finite set, as sequences without repetition
Orderings(S) ==
  {s \in [1..Cardinality(S) -> S] : \A i, j \in 1..Cardinality(S) : i # j => s[i] # s[j]}

----------------------------------------------------------------------------
(* Order book (crates/order-book): a book is the record                    *)
(* [orders, bid_levels, ask_levels, sequence_number]                       *)

OrderBookManager_new ==
  [orders |-> <<>>, bid_levels |-> <<>>, ask_levels |-> <<>>, sequence_number |-> 0]

Ok(b) == [ok |-> TRUE, err |-> "", book |-> b]
Err(e, b) == [ok |-> FALSE, err |-> e, book |-> b]

LevelsOf(b, side) == IF side = Bid THEN b.bid_levels ELSE b.ask_levels

SetLevels(b, side, lv) ==
  IF side = Bid THEN [b EXCEPT !.bid_levels = lv] ELSE [b EXCEPT !.ask_levels = lv]

\* entry(price).or_insert(level 0/0), then quantity += remaining, order_count += 1
LevelAdd(lv, o) ==
  LET cur == IF o.price \in DOMAIN lv THEN lv[o.price] ELSE PriceLevel(o.price, 0, 0)
  IN  With(lv, o.price,
           PriceLevel(o.price, cur.quantity + o.remaining_quantity, cur.order_count + 1))

\* if let Some(level): quantity -= remaining, order_count -= 1, drop at count 0
LevelRemove(lv, o) ==
  IF o.price \notin DOMAIN lv THEN lv
  ELSE LET cur == lv[o.price]
           n   == cur.order_count - 1
       IN  IF n = 0 THEN Without(lv, o.price)
           ELSE With(lv, o.price,
                     PriceLevel(o.price, cur.quantity - o.remaining_quantity, n))

\* if let Some(level): quantity -= change, drop the level at quantity 0
LevelReduce(lv, price, change) ==
  IF price \notin DOMAIN lv THEN lv
  ELSE LET cur == lv[price]
           q   == cur.quantity - change
       IN  IF q = 0 THEN Without(lv, price)
           ELSE With(lv, price, PriceLevel(price, q, cur.order_count))

add_order(b, order) ==
  IF order.price % tick_size # 0 THEN Err("PriceNotAlignedToTickSize", b)
  ELSE Ok([SetLevels(b, order.side, LevelAdd(LevelsOf(b, order.side), order))
             EXCEPT !.orders = With(b.orders, order.order_id, Resting(order)),
                    !.sequence_number = b.sequence_number + 1])

\* remove_order without the lookup failure: an id that is not resting is
\* reported as removed
remove_order_lenient(b, order_id) ==
  IF order_id \notin DOMAIN b.orders
  THEN [ok |-> TRUE, err |-> "", book |-> b,
        order |-> [order_id |-> order_id, status |-> Open]]
  ELSE [ok |-> TRUE, err |-> "",
        book |-> [b EXCEPT !.orders = Without(b.orders, order_id)],
        order |-> b.orders[order_id]]

\* on success the removed order is res.order
remove_order(b, order_id) ==
  IF order_id \notin DOMAIN b.orders
  THEN [ok |-> FALSE, err |-> "OrderNotFound", book |-> b, order |-> <<>>]
  ELSE LET order == b.orders[order_id]
           b1 == [b EXCEPT !.orders = Without(b.orders, order_id)]
           b2 == SetLevels(b1, order.side, LevelRemove(LevelsOf(b1, order.side), order))
       IN  [ok |-> TRUE, err |-> "",
            book |-> [b2 EXCEPT !.sequence_number = b.sequence_number + 1],
            order |-> order]

update_order_quantity(b, order_id, new_remaining_quantity) ==
  IF order_id \notin DOMAIN b.orders THEN Err("OrderNotFound", b)
  ELSE LET old == b.orders[order_id]
           quantity_change == old.remaining_quantity - new_remaining_quantity
           b1 == [b EXCEPT !.orders[order_id].remaining_quantity = new_remaining_quantity]
           b2 == SetLevels(b1, old.side,
                           LevelReduce(LevelsOf(b1, old.side), old.price, quantity_change))
       IN  IF new_remaining_quantity = 0
           THEN LET b3 == [b2 EXCEPT !.orders[order_id].status = Filled]
                    r  == remove_order(b3, order_id)
                IN  IF r.ok
                    THEN Ok([r.book EXCEPT !.sequence_number = r.book.sequence_number + 1])
                    ELSE Err(r.err, r.book)
           ELSE IF new_remaining_quantity < old.quantity
           THEN Ok([b2 EXCEPT !.orders[order_id].status = PartiallyFilled,
                              !.sequence_number = b2.sequence_number + 1])
           ELSE Ok([b2 EXCEPT !.sequence_number = b2.sequence_number + 1])

None == [some |-> FALSE, value |-> 0]
Some(v) == [some |-> TRUE, value |-> v]

get_best_bid(b) ==
  IF DOMAIN b.bid_levels = {} THEN None
  ELSE Some(CHOOSE p \in DOMAIN b.bid_levels : \A q \in DOMAIN b.bid_levels : q <= p)

get_best_ask(b) ==
  IF DOMAIN b.ask_levels = {} THEN None
  ELSE Some(CHOOSE p \in DOMAIN b.ask_levels : \A q \in DOMAIN b.ask_levels : p <= q)

\* (price, quantity) of every level: bids from the highest price down, asks
\* from the lowest price up
get_snapshot(b, current_time) ==
  [bids |-> [i \in 1..Cardinality(DOMAIN b.bid_levels) |->
               <<Reverse(Ascending(DOMAIN b.bid_levels))[i],
                 b.bid_levels[Reverse(Ascending(DOMAIN b.bid_levels))[i]].quantity>>],
   asks |-> [i \in 1..Cardinality(DOMAIN b.ask_levels) |->
               <<Ascending(DOMAIN b.ask_levels)[i],
                 b.ask_levels[Ascending(DOMAIN b.ask_levels)[i]].quantity>>],
   sequence_number |-> b.sequence_number,
   timestamp |-> current_time]

RECURSIVE InsertByTimestamp(_, _)
\* o goes behind every element whose timestamp is <= its own (a stable sort)
InsertByTimestamp(sorted, o) ==
  IF sorted = <<>> THEN <<o>>
  ELSE IF Head(sorted).timestamp <= o.timestamp
       THEN <<Head(sorted)>> \o InsertByTimestamp(Tail(sorted), o)
       ELSE <<o>> \o sorted

RECURSIVE sort_by_timestamp(_)
\* Vec::sort_by_key(|o| o.timestamp): stable
sort_by_timestamp(s) ==
  IF s = <<>> THEN <<>>
  ELSE InsertByTimestamp(sort_by_timestamp(SubSeq(s, 1, Len(s) - 1)), s[Len(s)])

\* the orders of one side and price with remaining quantity, in the order the
\* id index iterates (iter: an ordering of the ids in the index)
OrdersAt(b, iter, side, price) ==
  LET keep(id) == /\ b.orders[id].side = side
                  /\ b.orders[id].price = price
                  /\ b.orders[id].remaining_quantity > 0
      ids == SelectSeq(iter, keep)
  IN  [i \in 1..Len(ids) |-> b.orders[ids[i]]]

RECURSIVE CollectLevels(_, _, _, _, _)
\* for each level in turn: push its orders, then sort the whole vector
CollectLevels(b, iter, side, prices, acc) ==
  IF prices = <<>> THEN acc
  ELSE CollectLevels(b, iter, side, Tail(prices),
                     sort_by_timestamp(acc \o OrdersAt(b, iter, side, Head(prices))))

get_bids_down_to_price(b, min_price, iter) ==
  CollectLevels(b, iter, Bid,
                Reverse(Ascending({p \in DOMAIN b.bid_levels : p >= min_price})), <<>>)

get_asks_up_to_price(b, max_price, iter) ==
  CollectLevels(b, iter, Ask,
                Ascending({p \in DOMAIN b.ask_levels : p <= max_price}), <<>>)

----------------------------------------------------------------------------
(* Matching engine (crates/matching-engine) *)

\* a variant of is_self_trade that finds no pair of orders a self-trade
is_self_trade_never(order1, order2) == FALSE

is_self_trade(order1, order2) == order1.owner = order2.owner

\* result: [ok, err, book, order] (order: the taker after the call)
handle_self_trade(b, taker_order, maker_order) ==
  LET cancel_taker == [taker_order EXCEPT !.status = Cancelled]
      remove_maker(t) ==
        LET r == remove_order(b, maker_order.order_id)
        IN  [ok |-> r.ok, err |-> r.err, book |-> r.book, order |-> t]
      stb == taker_order.self_trade_behavior
  IN  IF stb = DecrementAndCancel
      THEN IF taker_order.remaining_quantity <= maker_order.remaining_quantity
           THEN [ok |-> TRUE, err |-> "", book |-> b, order |-> cancel_taker]
           ELSE remove_maker(taker_order)
      ELSE IF stb = CancelProvide THEN remove_maker(taker_order)
      ELSE IF stb = CancelTake
      THEN [ok |-> TRUE, err |-> "", book |-> b, order |-> cancel_taker]
      ELSE remove_maker(cancel_taker)

\* the state of one run of a matching loop: the book, the incoming order, the
\* trades pushed so far, and `steps`, one entry per maker the loop handled
\* (what the book held for that maker, and the taker, when it was reached);
\* `rested` tells whether add_order was called for the incoming order, and
\* `journal` lists the storage calls made for it
LoopState(b, order) ==
  [ok |-> TRUE, err |-> "", book |-> b, order |-> order, trades |-> <<>>, steps |-> <<>>,
   rested |-> FALSE, journal |-> <<>>]

\* orders: the id index when the maker was reached; orders_after: the id
\* index when the iteration ended; book_after: the book when it ended
StepEntry(kind, st, m, qty, r) ==
  [kind |-> kind, maker |-> m, quantity |-> qty,
   orders |-> st.book.orders, taker |-> st.order, orders_after |-> r.book.orders,
   book_after |-> r.book]

\* the loop state once handle_self_trade has returned r
AfterSelfTrade(st, m, r) ==
  [st EXCEPT !.ok = r.ok, !.err = r.err, !.book = r.book, !.order = r.order,
             !.steps = Append(st.steps, StepEntry("self_trade", st, m, 0, r))]

\* the body of the loop for one matching_order that is a self-trade
SelfTradeStep(st, m) ==
  AfterSelfTrade(st, m, handle_self_trade(st.book, st.order, m))

\* the loop state once update_order_quantity has returned r for the maker
AfterTrade(st, m, trade_quantity, current_time, r) ==
  [st EXCEPT !.ok = r.ok, !.err = r.err, !.book = r.book,
             !.order.remaining_quantity = st.order.remaining_quantity - trade_quantity,
             !.trades = Append(st.trades,
                               TradeExecution(m, st.order, trade_quantity, current_time)),
             !.steps = Append(st.steps, StepEntry("trade", st, m, trade_quantity, r))]

\* the trade of trade_quantity between the incoming order and the maker m
Trade(st, m, trade_quantity, current_time) ==
  AfterTrade(st, m, trade_quantity, current_time,
             update_order_quantity(st.book, m.order_id,
                                   m.remaining_quantity - trade_quantity))

\* the body of the loop for one matching_order that trades
TradeStep(st, m, current_time) ==
  Trade(st, m, Min(st.order.remaining_quantity, m.remaining_quantity), current_time)

can_match(order, matching_order) ==
  IF order.side = Bid THEN order.price >= matching_order.price
  ELSE order.price <= matching_order.price

RECURSIVE MatchLoop(_, _, _, _)
\* `for matching_order in matching_orders`; check_price is the limit order's
\* price check, absent from the market order's loop; an Err return stops it
MatchLoop(st, matching_orders, check_price, current_time) ==
  IF matching_orders = <<>> \/ ~st.ok THEN st
  ELSE LET m == Head(matching_orders)
       IN  IF st.order.remaining_quantity = 0 THEN st
           ELSE IF check_price /\ ~can_match(st.order, m) THEN st
           ELSE IF is_self_trade(st.order, m)
           THEN MatchLoop(SelfTradeStep(st, m), Tail(matching_orders),
                          check_price, current_time)
           ELSE MatchLoop(TradeStep(st, m, current_time), Tail(matching_orders),
                          check_price, current_time)

\* a variant of StatusAfterLoop that leaves the status as the loop left it
StatusAfterLoop_unchanged(order) == order

\* `order.status` after the loop, from the remaining quantity
StatusAfterLoop(order) ==
  IF order.remaining_quantity = 0 THEN [order EXCEPT !.status = Filled]
  ELSE IF order.remaining_quantity < order.quantity
  THEN [order EXCEPT !.status = PartiallyFilled]
  ELSE order

\* execute_market_order from the end of its loop, st the loop's last state
MarketAfterLoop(st) ==
  LET o1 == StatusAfterLoop(st.order)
      o2 == IF o1.remaining_quantity > 0 /\ o1.time_in_force = ImmediateOrCancel
            THEN [o1 EXCEPT !.status = Cancelled] ELSE o1
  IN  IF ~st.ok THEN st ELSE [st EXCEPT !.order = o2]

\* results of the execute_ operators: [ok, err, book, order, trades, steps]
execute_market_order(b, order, iter, current_time) ==
  MarketAfterLoop(
    MatchLoop(LoopState(b, order),
              IF order.side = Bid THEN get_asks_up_to_price(b, U64Max, iter)
              ELSE get_bids_down_to_price(b, 0, iter),
              FALSE, current_time))

\* a variant of LimitAfterLoop that treats every time in force as
\* GoodTillCancelled: a remainder is put on the book
LimitAfterLoop_always_rests(st) ==
  LET o1 == StatusAfterLoop(st.order)
      r  == add_order(st.book, o1)
  IN  IF ~st.ok THEN st
      ELSE IF o1.remaining_quantity > 0
      THEN [st EXCEPT !.ok = r.ok, !.err = r.err, !.book = r.book, !.order = o1,
                      !.rested = r.ok]
      ELSE [st EXCEPT !.order = o1]

\* execute_limit_order from the end of its loop, st the loop's last state
LimitAfterLoop(st) ==
  LET o1 == StatusAfterLoop(st.order)
      tif == o1.time_in_force
  IN  IF ~st.ok THEN st
      ELSE IF tif = FillOrKill
      THEN IF o1.remaining_quantity > 0
           THEN [st EXCEPT !.order = [o1 EXCEPT !.status = Cancelled], !.trades = <<>>]
           ELSE [st EXCEPT !.order = o1]
      ELSE IF tif = ImmediateOrCancel
      THEN IF o1.remaining_quantity > 0
           THEN [st EXCEPT !.order = [o1 EXCEPT !.status = Cancelled]]
           ELSE [st EXCEPT !.order = o1]
      ELSE IF o1.remaining_quantity > 0
           THEN LET r == add_order(st.book, o1)
                IN  [st EXCEPT !.ok = r.ok, !.err = r.err, !.book = r.book, !.order = o1,
                               !.rested = r.ok]
           ELSE [st EXCEPT !.order = o1]

execute_limit_order(b, order, iter, current_time) ==
  LimitAfterLoop(
    MatchLoop(LoopState(b, order),
              IF order.side = Bid THEN get_asks_up_to_price(b, order.price, iter)
              ELSE get_bids_down_to_price(b, order.price, iter),
              TRUE, current_time))

\* a variant of would_match_immediately that never finds a match
would_match_never(b, order) == FALSE

would_match_immediately(b, order) ==
  LET best_opposite == IF order.side = Bid THEN get_best_ask(b) ELSE get_best_bid(b)
  IN  IF best_opposite.some
      THEN IF order.side = Bid THEN order.price >= best_opposite.value
           ELSE order.price <= best_opposite.value
      ELSE FALSE

\* "" when the order passes, else the error
validate_order(order, current_time) ==
  IF order.quantity < min_order_size THEN "OrderSizeBelowMinimum"
  ELSE IF order.price % tick_size # 0 THEN "PriceNotAlignedToTickSize"
  ELSE IF is_paused THEN "OrderbookPaused"
  ELSE IF order.time_in_force = GoodTillTime /\ order.expiry_timestamp <= current_time
  THEN "OrderExpired"
  ELSE ""

\* "Persist order and trades": store_order, then store_trade for each trade
\* returned; skipped when the match returned Err (the `?`)
Persist(res) ==
  IF ~res.ok THEN res
  ELSE [res EXCEPT !.journal =
          <<[call |-> "store_order", order |-> res.order]>>
            \o [i \in 1..Len(res.trades) |->
                  [call |-> "store_trade", trade |-> res.trades[i]]]]

\* place_order with validate_order consulted after a limit order has been
\* run against the book
place_order_validates_late(b, order, iter, current_time) ==
  LET v == validate_order(order, current_time)
      st0 == LoopState(b, order)
  IN  IF order.order_type = Market
      THEN IF v # "" THEN [st0 EXCEPT !.ok = FALSE, !.err = v]
           ELSE Persist(execute_market_order(b, order, iter, current_time))
      ELSE IF order.order_type = Limit
      THEN IF v # ""
           THEN [Persist(execute_limit_order(b, order, iter, current_time))
                   EXCEPT !.ok = FALSE, !.err = v]
           ELSE Persist(execute_limit_order(b, order, iter, current_time))
      ELSE IF v # "" THEN [st0 EXCEPT !.ok = FALSE, !.err = v]
      ELSE IF would_match_immediately(b, order)
           THEN [st0 EXCEPT !.ok = FALSE, !.err = "PostOnlyOrderWouldMatch"]
           ELSE LET r == add_order(b, order)
                IN  Persist([st0 EXCEPT !.ok = r.ok, !.err = r.err, !.book = r.book,
                                        !.rested = r.ok])

\* result: [ok, err, book, order, trades, steps, rested, journal]; on ok, `order` is what
\* store_order journals and `trades` what is journaled and returned
place_order(b, order, iter, current_time) ==
  LET v == validate_order(order, current_time)
      st0 == LoopState(b, order)
  IN  IF v # "" THEN [st0 EXCEPT !.ok = FALSE, !.err = v]
      ELSE IF order.order_type = Market
      THEN Persist(execute_market_order(b, order, iter, current_time))
      ELSE IF order.order_type = Limit
      THEN Persist(execute_limit_order(b, order, iter, current_time))
      ELSE IF would_match_immediately(b, order)
           THEN [st0 EXCEPT !.ok = FALSE, !.err = "PostOnlyOrderWouldMatch"]
           ELSE LET r == add_order(b, order)
                IN  Persist([st0 EXCEPT !.ok = r.ok, !.err = r.err, !.book = r.book,
                                        !.rested = r.ok])

\* cancel_order once remove_order has returned r
AfterRemove(r) ==
  IF r.ok
  THEN [ok |-> TRUE, err |-> "", book |-> r.book,
        order |-> [r.order EXCEPT !.status = Cancelled],
        journal |-> <<[call |-> "update_order",
                       order |-> [r.order EXCEPT !.status = Cancelled]]>>]
  ELSE [ok |-> FALSE, err |-> r.err, book |-> r.book, order |-> r.order,
        journal |-> <<>>]

\* result: [ok, err, book, order, journal]; on ok, `order` is the cancelled
\* order, which update_order journals
cancel_order(b, order_id) == AfterRemove(remove_order(b, order_id))

----------------------------------------------------------------------------
(* Request handlers (crates/rpc-server) and the state machine *)

VARIABLES
  orders,           \* OrderBookManager.orders: order id -> resting order
  bid_levels,       \* OrderBookManager.bid_levels: price -> PriceLevel
  ask_levels,       \* OrderBookManager.ask_levels: price -> PriceLevel
  sequence_number,  \* OrderBookManager.sequence_number
  now,              \* the wall clock, in seconds
  last              \* the request being answered, with what the engine did for it

VARIABLES
  order_book_lock,  \* MatchingEngine.order_book's RwLock: who holds the write guard
  tasks,            \* the request handler tasks: where each is in its handler, and its locals
  snapshot          \* what get_order_book_snapshot returned last

VARIABLES
  market_data_tx,   \* WebSocketServerState.market_data_tx: the broadcast channel
  clients,          \* WebSocketServerState.clients: client id -> subscriptions
  session           \* handle_websocket's tasks for the one connection: their locals

VARIABLES
  order_accounts,     \* the svm_clob program's Order accounts: order_id -> Order
  user_accounts,      \* its UserAccount accounts: owner -> UserAccount
  orderbook_account,  \* its OrderBook account
  chain_last          \* the instruction processed last, with its outcome

VARIABLES
  entry_guard,  \* the id of the index entry a live RefMut holds locked, 0 for none
  call          \* the OrderBookManager call in progress, for a caller of the book alone

vars == <<orders, bid_levels, ask_levels, sequence_number, now, last,
          order_book_lock, tasks, snapshot, market_data_tx, clients, session,
          order_accounts, user_accounts, orderbook_account, chain_last,
          entry_guard, call>>

\* a call of the book in progress
callVars == <<entry_guard, call>>

\* the accounts of the on-chain program
chainVars == <<order_accounts, user_accounts, orderbook_account, chain_last>>

\* the state of the WebSocket server
wsVars == <<market_data_tx, clients, session>>

\* broadcast::channel: `ring` holds the updates still retained, the newest
\* ChannelCapacity at most, and `sent` counts every update ever sent, so the
\* ring holds the updates number sent - Len(ring) + 1 .. sent
broadcast_channel == [ring |-> <<>>, sent |-> 0]

\* the one connection of the model, by its client id
ClientId == "c1"

\* no connection is open.  next: the number of the update the receiver takes
\* next; sleep: the seconds the sleep beside recv() has run.  The rest records
\* what the session did: since_ping, the seconds since the last Ping (or the
\* connect); unanswered, the Pings sent since the client's last Pong; lagged,
\* whether recv() has returned Lagged; delivered, what the last recv() led to.
NoSession ==
  [connected |-> FALSE, next |-> 1, sleep |-> 0, since_ping |-> 0, unanswered |-> 0,
   lagged |-> FALSE, delivered |-> [kind |-> "none"]]

\* the state of the request handler tasks that run one beside the other
taskVars == <<order_book_lock, tasks, snapshot>>

\* the tasks that serve requests at the same time
Handlers == {"h1", "h2"}

\* order_book_lock when no task holds the write guard
Unlocked == "unlocked"

\* a task between two requests
NoTask ==
  [pc |-> "idle", op |-> "none", request |-> <<>>, res |-> <<>>, k |-> 0, j |-> 0,
   before |-> OrderBookManager_new, after |-> OrderBookManager_new,
   ok |-> TRUE, err |-> "", entered |-> FALSE, abandoned |-> FALSE]

\* no snapshot was read yet
NoSnapshot ==
  [taken |-> FALSE, value |-> get_snapshot(OrderBookManager_new, 0),
   whole |-> {get_snapshot(OrderBookManager_new, 0)}]

Book ==
  [orders |-> orders, bid_levels |-> bid_levels, ask_levels |-> ask_levels,
   sequence_number |-> sequence_number]

\* initialize_orderbook: no order placed yet, best_bid 0 and best_ask u64::MAX
initialize_orderbook ==
  [sequence_number |-> 0, best_bid |-> 0, best_ask |-> U64Max]

\* initialize_user_account
initialize_user_account(user) == [owner |-> user, open_orders_count |-> 0]

NoCall ==
  [fn |-> "none", pc |-> "idle", order_id |-> 0, new_remaining_quantity |-> 0,
   ok |-> TRUE, err |-> ""]

NoInstruction ==
  [op |-> "none", ok |-> TRUE, err |-> "", order_id |-> 0, before |-> <<>>]

NoRequest ==
  [op |-> "none", ok |-> TRUE, err |-> "", caller |-> "", request |-> <<>>,
   order |-> <<>>, trades |-> <<>>, steps |-> <<>>, rested |-> FALSE,
   journal |-> <<>>, before |-> OrderBookManager_new]

Req(types, prices, quantities, tifs, expiries, stbs) ==
  [owner : Owners, client_order_id : {1}, side : OrderSide, order_type : types,
   price : prices, quantity : quantities, time_in_force : tifs,
   expiry_timestamp : expiries, self_trade_behavior : stbs]

\* The PlaceOrderRequest bodies the model sends.  Fields the engine never reads
\* for a request of that shape are held at one value: a market order's price,
\* a PostOnly order's time in force and self-trade behaviour, the expiry of
\* an order that is not GTT (the handler's unwrap_or(0)), and the
\* client_order_id of every request, which no code reads.
\* Requests that leave nothing on the book whatever it holds:
TakerRequests ==
  Req({Limit}, 1..MaxPrice, 1..MaxQty, {ImmediateOrCancel, FillOrKill}, {0},
      SelfTradeBehavior)
    \cup Req({Market}, {0}, 1..MaxQty, {ImmediateOrCancel, FillOrKill}, {0},
             SelfTradeBehavior)
    \cup Req({Limit}, {tick_size}, {0}, {ImmediateOrCancel}, {0}, {DecrementAndCancel})
    \cup Req({Limit}, 1..MaxPrice, 1..MaxQty, {GoodTillTime}, {0}, {DecrementAndCancel})

\* Requests that may leave an order resting:
RestingRequests ==
  Req({Limit}, 1..MaxPrice, 1..MaxQty, {GoodTillCancelled}, {0}, SelfTradeBehavior)
    \cup Req({Limit}, 1..MaxPrice, 1..MaxQty, {GoodTillTime}, {MaxTime + 1},
             {DecrementAndCancel})
    \cup Req({PostOnly}, 1..MaxPrice, 1..MaxQty, {GoodTillCancelled}, {0},
             {DecrementAndCancel})

Requests == TakerRequests \cup RestingRequests

\* generate_order_id returns the millisecond clock plus a random 64-bit
\* number.  The book uses an id only as a key of the id index, so what matters
\* of the value is which resting order's id it equals, if any: the model draws
\* every id in the index and one id that is not in it.
FreshId(b) == CHOOSE i \in OrderIds \ DOMAIN b.orders : \A j \in OrderIds \ DOMAIN b.orders : i <= j

generate_order_id(b) == DOMAIN b.orders \cup {FreshId(b)}

\* The id index is a hash map: it iterates in an order of its own.  Of the
\* orderings of its keys, one is kept for each pair of vectors the two get_
\* operators can return (orderings that give the same vectors act alike).
IterationOrders(b) ==
  LET all == Orderings(DOMAIN b.orders)
      vectors(it) == <<get_asks_up_to_price(b, U64Max, it), get_bids_down_to_price(b, 0, it)>>
  IN  {CHOOSE it \in all : vectors(it) = v : v \in {vectors(it) : it \in all}}

\* the Order the handler builds from the request
NewOrder(request, order_id, current_time) ==
  [order_id |-> order_id, owner |-> request.owner, price |-> request.price,
   quantity |-> request.quantity, remaining_quantity |-> request.quantity,
   timestamp |-> current_time, client_order_id |-> request.client_order_id,
   expiry_timestamp |-> request.expiry_timestamp,
   side |-> request.side, order_type |-> request.order_type, status |-> Open,
   self_trade_behavior |-> request.self_trade_behavior,
   time_in_force |-> request.time_in_force]

SetBook(b) ==
  /\ orders' = b.orders
  /\ bid_levels' = b.bid_levels
  /\ ask_levels' = b.ask_levels
  /\ sequence_number' = b.sequence_number

Idle == last.op = "none" /\ sequence_number < MaxSeq

Init ==
  /\ orders = OrderBookManager_new.orders
  /\ bid_levels = OrderBookManager_new.bid_levels
  /\ ask_levels = OrderBookManager_new.ask_levels
  /\ sequence_number = OrderBookManager_new.sequence_number
  /\ now = 0
  /\ last = NoRequest
  /\ order_book_lock = Unlocked
  /\ tasks = [h \in Handlers |-> NoTask]
  /\ snapshot = NoSnapshot
  /\ market_data_tx = broadcast_channel
  /\ clients = <<>>
  /\ session = NoSession
  /\ order_accounts = <<>>
  /\ user_accounts = [user \in Owners |-> initialize_user_account(user)]
  /\ orderbook_account = initialize_orderbook
  /\ chain_last = NoInstruction
  /\ entry_guard = 0
  /\ call = NoCall

\* the engine has returned res for `order`: the write lock is released with
\* the book as the engine left it
Placed(order, res) ==
  /\ SetBook(res.book)
  /\ last' = [op |-> "place", ok |-> res.ok, err |-> res.err, caller |-> order.owner,
              request |-> order, order |-> res.order, trades |-> res.trades,
              steps |-> res.steps, rested |-> res.rested, journal |-> res.journal,
              before |-> Book]

\* iter: the order in which the id index (a hash map) iterates for this call
place_order_handler(request, order_id, iter) ==
  /\ Placed(NewOrder(request, order_id, now),
            place_order(Book, NewOrder(request, order_id, now), iter, now))
  /\ UNCHANGED now

\* caller: who sends the request; the route carries the order id alone, so
\* the handler and the engine never see it
cancel_order_handler(order_id, caller) ==
  /\ LET res == cancel_order(Book, order_id)
     IN  /\ SetBook(res.book)
         /\ last' = [op |-> "cancel", ok |-> res.ok, err |-> res.err, caller |-> caller,
                     request |-> order_id, order |-> res.order, trades |-> <<>>,
                     steps |-> <<>>, rested |-> FALSE, journal |-> res.journal,
                     before |-> Book]
  /\ UNCHANGED now

\* the handler returns its Json reply
Respond ==
  /\ last.op # "none"
  /\ last' = NoRequest
  /\ UNCHANGED <<orders, bid_levels, ask_levels, sequence_number, now>>
  /\ UNCHANGED <<taskVars, wsVars, chainVars, callVars>>

\* a second of wall time passes
Tick ==
  /\ Idle
  /\ now < MaxTime
  /\ now' = now + 1
  /\ UNCHANGED <<orders, bid_levels, ask_levels, sequence_number, last>>
  /\ UNCHANGED <<taskVars, wsVars, chainVars, callVars>>

\* a request is taken up when the previous one has been answered
PlaceOrder ==
  /\ Idle
  /\ \E iter \in IterationOrders(Book), order_id \in generate_order_id(Book),
        request \in IF Cardinality(DOMAIN orders) < MaxResting
                     THEN Requests ELSE TakerRequests :
       place_order_handler(request, order_id, iter)
  /\ UNCHANGED <<taskVars, wsVars, chainVars, callVars>>

CancelOrder ==
  /\ Idle
  /\ \E order_id \in OrderIds, caller \in Owners : cancel_order_handler(order_id, caller)
  /\ UNCHANGED <<taskVars, wsVars, chainVars, callVars>>

Next == PlaceOrder \/ CancelOrder \/ Respond \/ Tick

Spec == Init /\ [][Next]_vars

----------------------------------------------------------------------------
(* The request handlers as tasks that run one beside the other: each is at *)
(* an await of its handler, and a step takes it to its next await.         *)

\* a write guard is handed out whatever the lock's state
write_available_always(lock) == TRUE

\* RwLock::write resolves when no guard is held
write_available(lock) == lock = Unlocked

\* RwLock::read resolves when no write guard is held
read_available(lock) == lock = Unlocked

\* the PlaceOrderRequest bodies the tasks send: alice's bids, which rest, and
\* bob's asks, which take and never rest, all at one price so that every ask
\* meets the bids
TaskRequests ==
  {r \in Req({Limit}, {tick_size}, 1..MaxQty, {GoodTillCancelled, ImmediateOrCancel}, {0},
             {DecrementAndCancel}) :
     \/ r.owner = "alice" /\ r.side = Bid /\ r.time_in_force = GoodTillCancelled
     \/ r.owner = "bob" /\ r.side = Ask /\ r.time_in_force = ImmediateOrCancel}

SetTask(h, t) == tasks' = [tasks EXCEPT ![h] = t]

bookVars == <<orders, bid_levels, ask_levels, sequence_number>>

\* place_order_handler up to the engine's order_book.write().await.  The
\* order id it has generated is a random number that nothing reads before the
\* guard is taken: the model draws it there.
ReceivePlace(h) ==
  /\ tasks[h].pc = "idle"
  /\ ~snapshot.taken
  /\ sequence_number < MaxSeq
  /\ \E request \in TaskRequests :
       SetTask(h, [NoTask EXCEPT !.pc = "write", !.op = "place",
                                 !.request = NewOrder(request, 0, now)])
  /\ UNCHANGED <<bookVars, now, last, wsVars, chainVars, callVars, order_book_lock, snapshot>>

\* cancel_order_handler up to the engine's order_book.write().await
ReceiveCancel(h) ==
  /\ tasks[h].pc = "idle"
  /\ ~snapshot.taken
  /\ sequence_number < MaxSeq
  /\ \E order_id \in OrderIds :
       SetTask(h, [NoTask EXCEPT !.pc = "write", !.op = "cancel", !.request = order_id])
  /\ UNCHANGED <<bookVars, now, last, wsVars, chainVars, callVars, order_book_lock, snapshot>>

\* the write guard is h's; res is what the engine goes on to do with the
\* book as it is now
Locked(h, res) ==
  /\ order_book_lock' = h
  /\ SetTask(h, [tasks[h] EXCEPT !.pc = "match", !.entered = TRUE, !.before = Book,
                                 !.res = res, !.after = res.book])

\* order_book.write().await resolves
AcquireWrite(h) ==
  /\ tasks[h].pc = "write"
  /\ write_available(order_book_lock)
  /\ IF tasks[h].op = "cancel"
     THEN Locked(h, cancel_order(Book, tasks[h].request))
     ELSE /\ tasks[h].request.time_in_force = GoodTillCancelled
               => Cardinality(DOMAIN orders) < MaxResting
          /\ \E iter \in IterationOrders(Book), order_id \in generate_order_id(Book) :
               Locked(h, place_order(Book, [tasks[h].request EXCEPT !.order_id = order_id],
                                     iter, now))
  /\ UNCHANGED <<bookVars, now, last, wsVars, chainVars, callVars, snapshot>>

\* the steps the matching loop takes for h's order
StepsOf(t) == IF t.op = "place" THEN t.res.steps ELSE <<>>

\* one iteration of the matching loop, under the write guard
MatchStep(h) ==
  /\ tasks[h].pc = "match"
  /\ tasks[h].k < Len(StepsOf(tasks[h]))
  /\ SetBook(StepsOf(tasks[h])[tasks[h].k + 1].book_after)
  /\ SetTask(h, [tasks[h] EXCEPT !.k = @ + 1])
  /\ UNCHANGED <<now, last, wsVars, chainVars, callVars, order_book_lock, snapshot>>

\* the rest of the engine's work on the book; an Err returns through `?`,
\* which drops the guard, and Ok goes on to the first storage call
EndMatch(h) ==
  /\ tasks[h].pc = "match"
  /\ tasks[h].k = Len(StepsOf(tasks[h]))
  /\ SetBook(tasks[h].res.book)
  /\ IF tasks[h].res.ok
     THEN /\ SetTask(h, [tasks[h] EXCEPT !.pc = "store"])
          /\ UNCHANGED order_book_lock
     ELSE /\ SetTask(h, [tasks[h] EXCEPT !.pc = "done", !.ok = FALSE,
                                         !.err = tasks[h].res.err])
          /\ order_book_lock' = Unlocked
  /\ UNCHANGED <<now, last, wsVars, chainVars, callVars, snapshot>>

\* the storage call h awaits returns Ok; after the last one the engine
\* returns, which drops the guard
StorageOk(h) ==
  /\ tasks[h].pc = "store"
  /\ IF tasks[h].j + 1 < Len(tasks[h].res.journal)
     THEN /\ SetTask(h, [tasks[h] EXCEPT !.j = @ + 1])
          /\ UNCHANGED order_book_lock
     ELSE /\ SetTask(h, [tasks[h] EXCEPT !.j = @ + 1, !.pc = "done"])
          /\ order_book_lock' = Unlocked
  /\ UNCHANGED <<bookVars, now, last, wsVars, chainVars, callVars, snapshot>>

\* the storage call h awaits returns Err: the `?` returns it, which drops
\* the guard
StorageFails(h) ==
  /\ tasks[h].pc = "store"
  /\ SetTask(h, [tasks[h] EXCEPT !.pc = "done", !.ok = FALSE, !.err = "StorageError"])
  /\ order_book_lock' = Unlocked
  /\ UNCHANGED <<bookVars, now, last, wsVars, chainVars, callVars, snapshot>>

\* the handler's future is dropped at the await it is pending on (the client
\* went away): its locals are dropped, the write guard among them
Abandon(h) ==
  /\ tasks[h].pc \in {"write", "store"}
  /\ SetTask(h, [tasks[h] EXCEPT !.pc = "done", !.ok = FALSE, !.abandoned = TRUE])
  /\ order_book_lock' = IF order_book_lock = h THEN Unlocked ELSE order_book_lock
  /\ UNCHANGED <<bookVars, now, last, wsVars, chainVars, callVars, snapshot>>

\* the handler returns (or its dropped future is gone)
Reply(h) ==
  /\ tasks[h].pc = "done"
  /\ SetTask(h, NoTask)
  /\ UNCHANGED <<bookVars, now, last, wsVars, chainVars, callVars, order_book_lock, snapshot>>

\* the books that stand between whole operations: the book itself when no
\* task is inside the engine, else the book that task found and the book it
\* leaves
WholeBooks ==
  IF order_book_lock = Unlocked THEN {Book}
  ELSE {tasks[order_book_lock].before, tasks[order_book_lock].after}

\* get_order_book_snapshot: order_book.read().await, then get_snapshot
get_order_book_snapshot ==
  /\ read_available(order_book_lock)
  /\ ~snapshot.taken
  /\ snapshot' = [taken |-> TRUE, value |-> get_snapshot(Book, now),
                  whole |-> {get_snapshot(b, now) : b \in WholeBooks}]
  /\ UNCHANGED <<bookVars, now, last, wsVars, chainVars, callVars, order_book_lock, tasks>>

\* the snapshot's reader has its reply
SnapshotReturned ==
  /\ snapshot.taken
  /\ snapshot' = NoSnapshot
  /\ UNCHANGED <<bookVars, now, last, wsVars, chainVars, callVars, order_book_lock, tasks>>

TaskNext ==
  \/ \E h \in Handlers : ReceivePlace(h)
  \/ \E h \in Handlers : ReceiveCancel(h)
  \/ \E h \in Handlers : AcquireWrite(h)
  \/ \E h \in Handlers : MatchStep(h)
  \/ \E h \in Handlers : EndMatch(h)
  \/ \E h \in Handlers : StorageOk(h)
  \/ \E h \in Handlers : StorageFails(h)
  \/ \E h \in Handlers : Abandon(h)
  \/ \E h \in Handlers : Reply(h)
  \/ get_order_book_snapshot
  \/ SnapshotReturned

TaskSpec == Init /\ [][TaskNext]_vars

----------------------------------------------------------------------------
(* WebSocket server (crates/websocket-server): one connection, the         *)
(* broadcast channel and whoever calls broadcast_market_data               *)

OrderBookUpdate == "OrderBookUpdate"
TradeExecutionUpdate == "TradeExecution"
OrderUpdate == "OrderUpdate"
MarketDataUpdateType == {OrderBookUpdate, TradeExecutionUpdate, OrderUpdate}

\* the subscriptions a client can ask for; there is one market
Market1 == "market"
Subscription ==
  [type : {"OrderBook", "Trades"}, market : {Market1}]
    \cup [type : {"UserOrders"}, user : Owners]
    \cup [type : {"AllMarkets"}]

\* the updates sent: an OrderUpdate carries an order, of which `owner` is the
\* owner, and the other updates carry none
MarketDataUpdate ==
  [update_type : {OrderUpdate}, owner : Owners]
    \cup [update_type : {OrderBookUpdate, TradeExecutionUpdate}, owner : {""}]

\* should_send_update's match of one subscription with the update's type
SubscriptionMatches(subscription, update) ==
  \/ subscription.type = "OrderBook" /\ update.update_type = OrderBookUpdate
  \/ subscription.type = "Trades" /\ update.update_type = TradeExecutionUpdate
  \/ subscription.type = "UserOrders" /\ update.update_type = OrderUpdate
  \/ subscription.type = "AllMarkets"

should_send_update(subscriptions, update) ==
  \E i \in 1..Len(subscriptions) : SubscriptionMatches(subscriptions[i], update)

subscriptions_match(a, b) ==
  /\ a.type = b.type
  /\ a.type \in {"OrderBook", "Trades"} => a.market = b.market
  /\ a.type = "UserOrders" => a.user = b.user

\* subscriptions.retain(|s| !subscriptions_match(s, subscription))
Retain(subscriptions, subscription) ==
  LET keep(s) == ~subscriptions_match(s, subscription)
  IN  SelectSeq(subscriptions, keep)

wsFrame == UNCHANGED <<bookVars, now, last, taskVars, chainVars, callVars>>

\* handle_websocket up to the spawn of its two tasks: add_client, subscribe
WsConnect ==
  /\ ~session.connected
  /\ clients' = With(clients, ClientId, <<>>)
  /\ session' = [NoSession EXCEPT !.connected = TRUE, !.next = market_data_tx.sent + 1]
  /\ UNCHANGED market_data_tx
  /\ wsFrame

\* handle_incoming_message, Subscribe: push on the client's subscriptions
Subscribe ==
  /\ session.connected
  /\ Len(clients[ClientId]) < MaxSubscriptions
  /\ \E subscription \in Subscription :
       clients' = [clients EXCEPT ![ClientId] = Append(@, subscription)]
  /\ UNCHANGED <<market_data_tx, session>>
  /\ wsFrame

\* handle_incoming_message, Unsubscribe
Unsubscribe ==
  /\ session.connected
  /\ \E subscription \in Subscription :
       /\ Retain(clients[ClientId], subscription) # clients[ClientId]
       /\ clients' = [clients EXCEPT ![ClientId] = Retain(@, subscription)]
  /\ UNCHANGED <<market_data_tx, session>>
  /\ wsFrame

\* market_data_tx.send(update): with no receiver it returns Err and keeps
\* nothing; else the update goes in the ring, which drops its oldest update
\* when it is full.  It never waits.
broadcast_market_data ==
  /\ market_data_tx.sent < MaxUpdates
  /\ session.connected
  /\ \E update \in MarketDataUpdate :
       market_data_tx' =
         [ring |-> IF Len(market_data_tx.ring) = ChannelCapacity
                   THEN Append(Tail(market_data_tx.ring), update)
                   ELSE Append(market_data_tx.ring, update),
          sent |-> market_data_tx.sent + 1]
  /\ UNCHANGED <<clients, session>>
  /\ wsFrame

\* the number of the oldest update the ring retains
Oldest == market_data_tx.sent - Len(market_data_tx.ring) + 1

\* the update with number n, which the ring retains
Retained(n) == market_data_tx.ring[n - Oldest + 1]

\* recv() returned Ok(update): the update is sent when should_send_update
\* says so.  `wanted` is what the subscriptions ask for: a subscription
\* matches the update's type and, when it is UserOrders, the order's owner.
Received(update) ==
  session' =
    [session EXCEPT
       !.next = @ + 1,
       !.sleep = 0,
       !.delivered =
         [kind |-> "update", update |-> update,
          sent |-> should_send_update(clients[ClientId], update),
          wanted |-> \E i \in 1..Len(clients[ClientId]) :
                       /\ SubscriptionMatches(clients[ClientId][i], update)
                       /\ clients[ClientId][i].type = "UserOrders"
                            => clients[ClientId][i].user = update.owner,
          lagged |-> session.lagged]]

\* the outgoing task's select! takes its recv() branch: Lagged is logged
\* and the receiver goes on from the oldest update retained; either way the
\* loop starts over, with a new sleep
RecvMarketData ==
  /\ session.connected
  /\ session.next <= market_data_tx.sent
  /\ IF session.next < Oldest
     THEN session' = [session EXCEPT !.next = Oldest, !.sleep = 0, !.lagged = TRUE,
                                     !.delivered = [kind |-> "none"]]
     ELSE Received(Retained(session.next))
  /\ UNCHANGED <<market_data_tx, clients>>
  /\ wsFrame

\* the select! takes its sleep branch, 30 seconds after the loop started over
SendPing ==
  /\ session.connected
  /\ session.sleep = PingSeconds
  /\ session' = [session EXCEPT !.sleep = 0, !.since_ping = 0,
                                !.unanswered = Min(@ + 1, 3),
                                !.delivered = [kind |-> "ping"]]
  /\ UNCHANGED <<market_data_tx, clients>>
  /\ wsFrame

\* the incoming task takes a Pong of the client: it is logged
ClientPong ==
  /\ session.connected
  /\ session.unanswered > 0
  /\ session' = [session EXCEPT !.unanswered = 0]
  /\ UNCHANGED <<market_data_tx, clients>>
  /\ wsFrame

\* a second passes.  The outgoing task is not kept waiting: no second passes
\* while its recv() or its sleep is ready.
WsTick ==
  /\ session.connected
  /\ session.next > market_data_tx.sent
  /\ session.sleep < PingSeconds
  /\ session.since_ping <= PingSeconds
  /\ session' = [session EXCEPT !.sleep = @ + 1, !.since_ping = @ + 1]
  /\ UNCHANGED <<market_data_tx, clients>>
  /\ wsFrame

\* the client closes the connection: the tasks end, remove_client, and the
\* receiver is dropped, after which the channel holds nothing for it
ClientClose ==
  /\ session.connected
  /\ clients' = Without(clients, ClientId)
  /\ session' = NoSession
  /\ market_data_tx' = [market_data_tx EXCEPT !.ring = <<>>]
  /\ wsFrame

WsNext ==
  \/ WsConnect
  \/ Subscribe
  \/ Unsubscribe
  \/ broadcast_market_data
  \/ RecvMarketData
  \/ SendPing
  \/ ClientPong
  \/ WsTick
  \/ ClientClose

WsSpec == Init /\ [][WsNext]_vars

----------------------------------------------------------------------------
(* The book under GTT orders while the clock runs past their expiry *)

\* GTT limit orders that expire when the clock shows MaxTime
ExpiryRequests ==
  Req({Limit}, 1..MaxPrice, 1..MaxQty, {GoodTillTime}, {MaxTime}, {DecrementAndCancel})

PlaceGTT ==
  /\ Idle
  /\ Cardinality(DOMAIN orders) < MaxResting
  /\ \E iter \in IterationOrders(Book), order_id \in generate_order_id(Book),
        request \in ExpiryRequests :
       place_order_handler(request, order_id, iter)
  /\ UNCHANGED <<taskVars, wsVars, chainVars, callVars>>

\* a second of wall time passes, whatever the handlers do; the clock runs to
\* one second past MaxTime
Clock ==
  /\ now <= MaxTime
  /\ now' = now + 1
  /\ UNCHANGED <<orders, bid_levels, ask_levels, sequence_number, last>>
  /\ UNCHANGED <<taskVars, wsVars, chainVars, callVars>>

ExpiryNext == PlaceGTT \/ CancelOrder \/ Respond \/ Clock

\* time passes and a handler that has its result replies; requests come or
\* do not come
ExpirySpec == Init /\ [][ExpiryNext]_vars /\ WF_vars(Clock) /\ WF_vars(Respond)

----------------------------------------------------------------------------
(* Properties.  They are read in the state a handler leaves, where `last`   *)
(* holds the request, the order after the engine ran, the trades returned,  *)
(* the loop's steps and the book before the call.                           *)

\* place_order returned Ok for the request being answered
Completed == last.op = "place" /\ last.ok

IsTrade(s) == s.kind = "trade"
IsSelfTrade(s) == s.kind = "self_trade"

\* the steps of the loop that executed a trade, in order
TradeSteps == SelectSeq(last.steps, IsTrade)

\* the resting order o, on the side opposite the taker, is within the
\* taker's price (any price for a market order)
Crosses(taker, o) ==
  \/ taker.order_type = Market
  \/ IF taker.side = Bid THEN o.price <= taker.price ELSE o.price >= taker.price

\* for makers of `side`, price p is strictly better for the taker than q
BetterPrice(side, p, q) == IF side = Ask THEN p < q ELSE p > q

RECURSIVE RestingQuantity(_, _)
\* the sum of remaining_quantity over the orders of `os` with ids in S
RestingQuantity(os, S) ==
  IF S = {} THEN 0
  ELSE LET id == CHOOSE x \in S : TRUE
       IN  os[id].remaining_quantity + RestingQuantity(os, S \ {id})

\* the ids of the orders of `os` at one side and price
IdsAt(os, side, price) ==
  {id \in DOMAIN os : os[id].side = side /\ os[id].price = price}

\* C1: price priority.  Whenever the loop fills a maker, no order of another
\* owner on the maker's side, within the taker's price and with remaining
\* quantity, rests at a strictly better price at that moment.
C1_PricePriority ==
  Completed =>
    \A i \in 1..Len(last.steps) :
      IsTrade(last.steps[i]) =>
        \A id \in DOMAIN last.steps[i].orders :
          LET s == last.steps[i]
              o == s.orders[id]
          IN  ~ /\ o.side = s.maker.side
                /\ o.owner # s.taker.owner
                /\ o.remaining_quantity > 0
                /\ Crosses(s.taker, o)
                /\ BetterPrice(o.side, o.price, s.maker.price)

\* C2: time priority within a price.  Whenever the loop fills a maker, no
\* order of another owner with remaining quantity rests on the same side at
\* the same price with an earlier timestamp, or with the same timestamp and a
\* smaller order_id.
C2_TimePriority ==
  Completed =>
    \A i \in 1..Len(last.steps) :
      IsTrade(last.steps[i]) =>
        \A id \in DOMAIN last.steps[i].orders :
          LET s == last.steps[i]
              o == s.orders[id]
          IN  ~ /\ o.side = s.maker.side
                /\ o.price = s.maker.price
                /\ o.owner # s.taker.owner
                /\ o.remaining_quantity > 0
                /\ \/ o.timestamp < s.maker.timestamp
                   \/ /\ o.timestamp = s.maker.timestamp
                      /\ o.order_id < s.maker.order_id

\* C3: the book is never crossed.  When both sides hold a level, the best bid
\* is strictly below the best ask.
C3_NeverCrossed ==
  (get_best_bid(Book).some /\ get_best_ask(Book).some) =>
    get_best_bid(Book).value < get_best_ask(Book).value

\* C4: price-level aggregates match the resting orders.  For every side and
\* price, the level's quantity is the sum of remaining_quantity of the orders
\* of the id index at that side and price and its order_count is their
\* number; where there is no level there are no such orders.
C4_LevelAggregates ==
  \A side \in OrderSide :
    \A price \in DOMAIN LevelsOf(Book, side) \cup {orders[id].price : id \in DOMAIN orders} :
      IF price \in DOMAIN LevelsOf(Book, side)
      THEN /\ LevelsOf(Book, side)[price].quantity =
                RestingQuantity(orders, IdsAt(orders, side, price))
           /\ LevelsOf(Book, side)[price].order_count =
                Cardinality(IdsAt(orders, side, price))
      ELSE IdsAt(orders, side, price) = {}

\* C5: only live orders rest.  Every order of the id index is Open or
\* PartiallyFilled, has remaining quantity, and has a level at its own price
\* on its own side.
C5_OnlyLiveOrdersRest ==
  \A id \in DOMAIN orders :
    /\ orders[id].status \in {Open, PartiallyFilled}
    /\ orders[id].remaining_quantity > 0
    /\ orders[id].price \in DOMAIN LevelsOf(Book, orders[id].side)

\* C6: every trade returned by place_order is the trade of one step of the
\* loop, at the price the maker rests at, of a positive quantity no larger
\* than what the maker and the taker had left just before it, with a maker
\* owned by someone other than the taker's owner.
C6_TradesWellFormed ==
  Completed =>
    /\ Len(last.trades) <= Len(TradeSteps)
    /\ \A i \in 1..Len(last.trades) :
         LET t == last.trades[i]
             s == TradeSteps[i]
         IN  /\ t.maker_order_id = s.maker.order_id
             /\ t.taker_order_id = s.taker.order_id
             /\ t.maker_order_id \in DOMAIN s.orders
             /\ t.price = s.orders[t.maker_order_id].price
             /\ t.quantity > 0
             /\ t.quantity <= Min(s.orders[t.maker_order_id].remaining_quantity,
                                  s.taker.remaining_quantity)
             /\ s.orders[t.maker_order_id].owner # s.taker.owner

\* a placement returned two trades
C6_TwoTradesReturned == Completed /\ Len(last.trades) = 2

\* C7: conservation of quantity.  After a completed place_order the order's
\* quantity is its remaining quantity plus the quantities of the trades
\* returned, and the quantity the loop took from makers is that same sum.
C7_Conservation ==
  Completed =>
    /\ last.request.quantity =
         last.order.remaining_quantity + SumQty(last.trades, 1)
    /\ SumQty(TradeSteps, 1) = SumQty(last.trades, 1)

\* C8: a FOK limit order that the book before the call cannot fill in full
\* at its limit price (the orders within its price hold less than its
\* quantity) leaves the id index and both sides' levels as they were.
C8_FOKLeavesBook ==
  ( /\ Completed
    /\ last.request.order_type = Limit
    /\ last.request.time_in_force = FillOrKill
    /\ RestingQuantity(last.before.orders,
                       {id \in DOMAIN last.before.orders :
                          /\ last.before.orders[id].side # last.request.side
                          /\ Crosses(last.request, last.before.orders[id])})
         < last.request.quantity )
  => /\ orders = last.before.orders
     /\ bid_levels = last.before.bid_levels
     /\ ask_levels = last.before.ask_levels

\* C9: FOK is all or nothing.  A FOK order, limit or market, that is not
\* filled in full returns no trade and ends Cancelled.
C9_FOKAllOrNothing ==
  ( /\ Completed
    /\ last.request.order_type \in {Limit, Market}
    /\ last.request.time_in_force = FillOrKill
    /\ last.order.remaining_quantity > 0 )
  => /\ last.trades = <<>>
     /\ last.order.status = Cancelled

\* C10: with CancelTake or CancelBoth, once the loop meets a resting order of
\* the taker's owner, the taker ends Cancelled, no later step of the loop is
\* a trade, the taker is not put on the book, and with CancelBoth that maker
\* is gone from the book.
C10_STPTerminatesTaker ==
  (Completed /\ last.request.self_trade_behavior \in {CancelTake, CancelBoth}) =>
    \A i \in 1..Len(last.steps) :
      IsSelfTrade(last.steps[i]) =>
        /\ last.order.status = Cancelled
        /\ \A j \in (i + 1)..Len(last.steps) : ~IsTrade(last.steps[j])
        /\ ~ /\ last.order.order_id \in DOMAIN orders
             /\ orders[last.order.order_id] = Resting(last.order)
        /\ last.request.self_trade_behavior = CancelBoth =>
             last.steps[i].maker.order_id \notin DOMAIN orders

\* C11: self-trade prevention with DecrementAndCancel.  When the loop meets
\* a resting order of the taker's owner, no trade is returned with that
\* maker and: if the taker has less left, the taker ends Cancelled, is not
\* put on the book and the maker stays as it was; if the maker has less
\* left, the maker is removed; if both have the same left, the maker is
\* removed and the taker ends Cancelled.
C11_DecrementAndCancel ==
  (Completed /\ last.request.self_trade_behavior = DecrementAndCancel) =>
    \A i \in 1..Len(last.steps) :
      IsSelfTrade(last.steps[i]) =>
        LET s   == last.steps[i]
            mid == s.maker.order_id
            tr  == s.taker.remaining_quantity
            mr  == s.orders[mid].remaining_quantity
        IN  /\ \A j \in 1..Len(last.trades) : last.trades[j].maker_order_id # mid
            /\ tr < mr => /\ last.order.status = Cancelled
                          /\ ~last.rested
                          /\ mid \in DOMAIN s.orders_after
                          /\ s.orders_after[mid] = s.orders[mid]
            /\ mr < tr => mid \notin DOMAIN s.orders_after
            /\ tr = mr => /\ mid \notin DOMAIN s.orders_after
                          /\ last.order.status = Cancelled

\* C12: market orders never rest and their remainder is cancelled.  After a
\* completed placement of a Market order, add_order was not called for it,
\* the id index holds no id it did not hold before, and if the order has
\* quantity left its status is Cancelled.
C12_MarketNeverRests ==
  (Completed /\ last.request.order_type = Market) =>
    /\ ~last.rested
    /\ DOMAIN orders \subseteq DOMAIN last.before.orders
    /\ last.order.remaining_quantity > 0 => last.order.status = Cancelled

\* C13: IOC never rests.  After a completed placement of an IOC limit order
\* with quantity left, the order is Cancelled, add_order was not called for
\* it and the id index holds no new id; the trades returned are the trades
\* the loop executed, and every maker of a trade is gone from the book if
\* the trade took all it had left and else rests with that much less.
C13_IOCNeverRests ==
  ( /\ Completed
    /\ last.request.order_type = Limit
    /\ last.request.time_in_force = ImmediateOrCancel
    /\ last.order.remaining_quantity > 0 )
  => /\ last.order.status = Cancelled
     /\ ~last.rested
     /\ DOMAIN orders \subseteq DOMAIN last.before.orders
     /\ Len(last.trades) = Len(TradeSteps)
     /\ \A i \in 1..Len(TradeSteps) :
          LET s   == TradeSteps[i]
              mid == s.maker.order_id
              mr  == s.orders[mid].remaining_quantity
          IN  /\ last.trades[i].maker_order_id = mid
              /\ last.trades[i].quantity = s.quantity
              /\ IF s.quantity = mr THEN mid \notin DOMAIN orders
                 ELSE /\ mid \in DOMAIN orders
                      /\ orders[mid].remaining_quantity = mr - s.quantity

\* an IOC limit order traded and was left with a remainder
C13_IOCPartlyFilled ==
  /\ Completed
  /\ last.request.order_type = Limit
  /\ last.request.time_in_force = ImmediateOrCancel
  /\ last.order.remaining_quantity > 0
  /\ Len(last.trades) >= 1

\* the order's price reaches the best price of the opposite side of book b
CrossesBest(b, order) ==
  IF order.side = Bid THEN \E p \in DOMAIN b.ask_levels : order.price >= p
  ELSE \E p \in DOMAIN b.bid_levels : order.price <= p

\* C14: PostOnly never takes.  A valid PostOnly order whose price reaches
\* the best opposite price fails with PostOnlyOrderWouldMatch, with the
\* book and its sequence_number as before, no storage call and no trade;
\* one that does not is put on the book as placed, with no trade and no
\* maker visited.
C14_PostOnlyNeverTakes ==
  ( /\ last.op = "place"
    /\ last.request.order_type = PostOnly
    /\ validate_order(last.request, now) = "" )
  => IF CrossesBest(last.before, last.request)
     THEN /\ ~last.ok
          /\ last.err = "PostOnlyOrderWouldMatch"
          /\ Book = last.before
          /\ last.journal = <<>>
          /\ last.trades = <<>>
     ELSE /\ last.ok
          /\ last.rested
          /\ last.request.order_id \in DOMAIN orders
          /\ orders[last.request.order_id] = Resting(last.request)
          /\ sequence_number = last.before.sequence_number + 1
          /\ last.trades = <<>>
          /\ last.steps = <<>>

\* a PostOnly order was refused because it would match
C14_PostOnlyRefused ==
  /\ last.op = "place"
  /\ last.request.order_type = PostOnly
  /\ last.err = "PostOnlyOrderWouldMatch"
  /\ CrossesBest(last.before, last.request)

Terminal == {Filled, Cancelled, Expired}

\* the status of the incoming order each time the loop reached a maker, then
\* its status as journaled
TakerStatuses ==
  [i \in 1..Len(last.steps) |-> last.steps[i].taker.status] \o <<last.order.status>>

\* C15: terminal statuses are sticky.  Within a placement, once the incoming
\* order's status is Filled, Cancelled or Expired it stays that to the end;
\* and a resting order with a terminal status that is still on the book after
\* the placement has the same status.
C15_TerminalSticky ==
  Completed =>
    /\ \A i, j \in 1..Len(TakerStatuses) :
         (i < j /\ TakerStatuses[i] \in Terminal) => TakerStatuses[j] = TakerStatuses[i]
    /\ \A i \in 1..Len(last.steps) :
         LET s   == last.steps[i]
             mid == s.maker.order_id
         IN  (s.orders[mid].status \in Terminal /\ mid \in DOMAIN s.orders_after)
               => s.orders_after[mid].status = s.orders[mid].status

\* the status of order record o agrees with its quantities
StatusAgrees(o) ==
  /\ 0 <= o.remaining_quantity
  /\ o.remaining_quantity <= o.quantity
  /\ o.status = Filled <=> o.remaining_quantity = 0
  /\ o.status \notin Terminal =>
       /\ o.status = PartiallyFilled <=>
            (0 < o.remaining_quantity /\ o.remaining_quantity < o.quantity)
       /\ o.status = Open <=> o.remaining_quantity = o.quantity

\* C16: status agrees with quantities.  Every order of the id index, every
\* order handed to store_order or update_order, and the order a handler
\* returns (the order as built for a placement, the cancelled order for a
\* cancel) has 0 <= remaining_quantity <= quantity, is Filled exactly when
\* nothing remains, and when not terminal is PartiallyFilled exactly when
\* 0 < remaining_quantity < quantity and Open exactly when all remains.
C16_StatusAgreesWithQuantities ==
  /\ \A id \in DOMAIN orders : StatusAgrees(orders[id])
  /\ \A i \in 1..Len(last.journal) :
       last.journal[i].call \in {"store_order", "update_order"} =>
         StatusAgrees(last.journal[i].order)
  /\ (last.op = "place" /\ last.ok) => StatusAgrees(last.request)
  /\ (last.op = "cancel" /\ last.ok) => StatusAgrees(last.order)

\* a partly filled order was journaled and put on the book
C16_PartlyFilledRests ==
  /\ Completed
  /\ last.rested
  /\ last.order.status = PartiallyFilled
  /\ last.order.order_id \in DOMAIN orders

\* the steps of the loop in which self-trade prevention removed the maker
RemovalSteps ==
  {i \in 1..Len(last.steps) :
     /\ IsSelfTrade(last.steps[i])
     /\ last.steps[i].maker.order_id \notin DOMAIN last.steps[i].orders_after}

\* the side effects of the request being answered: for a placement, one if
\* the order was put on the book, one for each maker filled and one for each
\* maker removed; for a cancel, one if it removed the order
SideEffects ==
  IF last.op = "place"
  THEN (IF last.rested THEN 1 ELSE 0) + Len(TradeSteps) + Cardinality(RemovalSteps)
  ELSE IF last.op = "cancel" /\ last.ok THEN 1
  ELSE 0

\* C17: one sequence bump per side effect.  A request raises the book's
\* sequence_number by the number of its side effects: by nothing when it
\* fails, and never lowers it.
C17_OneBumpPerSideEffect ==
  last.op # "none" =>
    sequence_number = last.before.sequence_number + SideEffects

\* C18: order ids are fresh and increasing.  The order_id of an accepted
\* placement is larger than the id of every order resting when it arrives
\* (each of which was placed earlier), and so equals none of them.
C18_FreshIncreasingIds ==
  Completed =>
    \A id \in DOMAIN last.before.orders : id < last.request.order_id

\* C19: only the owner can cancel.  A cancel of a live order by a caller who
\* is not its owner fails with Unauthorized, leaves the order in the book and
\* writes nothing to the journal.
C19_OnlyOwnerCancels ==
  (/\ last.op = "cancel"
   /\ last.request \in DOMAIN last.before.orders
   /\ last.before.orders[last.request].owner # last.caller)
    => /\ ~last.ok
       /\ last.err = "Unauthorized"
       /\ orders = last.before.orders
       /\ bid_levels = last.before.bid_levels
       /\ ask_levels = last.before.ask_levels
       /\ sequence_number = last.before.sequence_number
       /\ last.journal = <<>>

\* C20: a cancel of an id that is not resting fails with OrderNotFound and
\* leaves the book, sequence_number and the journal unchanged.
C20_CancelUnknownId ==
  (/\ last.op = "cancel"
   /\ last.request \notin DOMAIN last.before.orders)
    => /\ ~last.ok
       /\ last.err = "OrderNotFound"
       /\ orders = last.before.orders
       /\ bid_levels = last.before.bid_levels
       /\ ask_levels = last.before.ask_levels
       /\ sequence_number = last.before.sequence_number
       /\ last.journal = <<>>

\* A cancel of an id that is not resting was answered while another order rests.
C20_UnknownIdRefused ==
  /\ last.op = "cancel"
  /\ last.request \notin DOMAIN last.before.orders
  /\ DOMAIN last.before.orders # {}
  /\ ~last.ok

----------------------------------------------------------------------------
(* Properties of the tasks.  A task that is "done" has left the engine:    *)
(* `before` is the book it found when it took the write guard, `after` the *)
(* book it left when the guard was dropped, `j` the storage calls that     *)
(* returned Ok of the calls res.journal.                                   *)

\* the tasks that have been inside the engine and have left it
Left == {h \in Handlers : tasks[h].pc = "done" /\ tasks[h].entered}

\* C21: book and journal change together or not at all.  A request that
\* fails after it took the lock (a storage call failed, or it was abandoned)
\* leaves the book as it found it, and a request that changed the book has
\* had every one of its storage calls done.
C21_BookAndJournalTogether ==
  \A h \in Left :
    /\ ~tasks[h].ok => tasks[h].after = tasks[h].before
    /\ tasks[h].after # tasks[h].before
         => tasks[h].res.ok /\ tasks[h].j = Len(tasks[h].res.journal)

\* C22: the book lock is not held across storage awaits.  While a task
\* waits on a storage call the lock is free, for writers and for readers.
C22_NoLockAcrossStorage ==
  \A h \in Handlers :
    tasks[h].pc = "store"
      => /\ order_book_lock # h
         /\ write_available(order_book_lock)
         /\ read_available(order_book_lock)

\* the tasks inside the book's critical section
InCriticalSection == {h \in Handlers : tasks[h].pc \in {"match", "store"}}

\* C23: single writer.  At most one task is inside the critical section, and
\* a snapshot is the snapshot of a book that stands before or after a whole
\* operation.
C23_SingleWriter ==
  /\ Cardinality(InCriticalSection) <= 1
  /\ \A h \in InCriticalSection : order_book_lock = h
  /\ snapshot.taken => snapshot.value \in snapshot.whole

\* One task is between two iterations of the matching loop, with the book
\* as no whole operation leaves it, while the other task waits for the lock.
C23_MidLoopWhileOtherWaits ==
  \E h, g \in Handlers :
    /\ h # g
    /\ tasks[h].pc = "match"
    /\ tasks[h].k = 1
    /\ Len(StepsOf(tasks[h])) = 2
    /\ get_snapshot(Book, now) \notin {get_snapshot(b, now) : b \in WholeBooks}
    /\ tasks[g].pc = "write"

----------------------------------------------------------------------------
(* The journal's orders table, as a function order id -> row *)

\* what one storage call does to the table: store_order inserts the order's
\* row, update_order sets remaining_quantity and status of the row with the
\* order's id, store_trade writes another table
ApplyCall(table, c) ==
  IF c.call = "store_order" THEN With(table, c.order.order_id, c.order)
  ELSE IF c.call = "update_order" /\ c.order.order_id \in DOMAIN table
  THEN [table EXCEPT ![c.order.order_id].remaining_quantity = c.order.remaining_quantity,
                     ![c.order.order_id].status = c.order.status]
  ELSE table

RECURSIVE ApplyJournal(_, _, _)
\* the table after the calls i.. of `calls`
ApplyJournal(table, calls, i) ==
  IF i > Len(calls) THEN table
  ELSE ApplyJournal(ApplyCall(table, calls[i]), calls, i + 1)

\* the rows journaled as live
LiveRows(table) == {id \in DOMAIN table : table[id].status \in {Open, PartiallyFilled}}

RECURSIVE Rebuild(_, _, _)
\* the book that adding the rows `ids` of the table to b gives
Rebuild(table, ids, b) ==
  IF ids = {} THEN b
  ELSE Rebuild(table, ids \ {CHOOSE id \in ids : TRUE},
               add_order(b, table[CHOOSE id \in ids : TRUE]).book)

\* the book rebuilt from the table has the aggregated snapshot of b
JournalAgrees(table, b) ==
  /\ get_snapshot(Rebuild(table, LiveRows(table), OrderBookManager_new), 0).bids
       = get_snapshot(b, 0).bids
  /\ get_snapshot(Rebuild(table, LiveRows(table), OrderBookManager_new), 0).asks
       = get_snapshot(b, 0).asks

\* C24: journal and book agree.  When the orders table agreed with the book
\* before a successful request, the table after the request's storage calls
\* agrees with the book the request leaves: the book rebuilt from the rows
\* journaled as Open or PartiallyFilled has the book's aggregated snapshot.
\* (Read for the placements whose order id is new and whose own row is
\* journaled as live only when the order rests.)
C24_JournalAndBookAgree ==
  (/\ last.op # "none"
   /\ last.ok
   /\ last.op = "place"
        => /\ last.request.order_id \notin DOMAIN last.before.orders
           /\ last.order.status \in {Open, PartiallyFilled} => last.rested
   /\ JournalAgrees(last.before.orders, last.before))
    => JournalAgrees(ApplyJournal(last.before.orders, last.journal, 1), Book)

----------------------------------------------------------------------------
(* Properties of the market-data feed *)

\* C25: every accepted change is published.  When a PlaceOrder or
\* CancelOrder request has succeeded and changed the book, an update has been
\* sent on the broadcast channel.
C25_ChangesPublished ==
  (last.op # "none" /\ last.ok /\ Book # last.before) => market_data_tx.sent > 0

\* C26: subscription filtering is exact.  An update taken from the channel
\* is sent to the client exactly when one of its subscriptions matches the
\* update's type and, for UserOrders, the owner of the update's order.
C26_ExactFiltering ==
  session.delivered.kind = "update"
    => session.delivered.sent = session.delivered.wanted

\* C27: lag is never silent.  A session whose receiver has lagged (it was
\* not told, and it is still connected) is sent no later update.
C27_LagNeverSilent ==
  (session.delivered.kind = "update" /\ session.delivered.sent)
    => ~session.delivered.lagged

\* C28: keepalive.  No more than 30 seconds pass on a connection without a
\* Ping, and a connection on which two Pings went unanswered is not kept
\* (a third Ping is never sent on it).
C28_Keepalive ==
  session.connected
    => /\ session.since_ping <= PingSeconds
       /\ session.unanswered <= 2

\* the orders of `os` with the owner and the client_order_id of `order`
SameClientOrder(os, order) ==
  {id \in DOMAIN os : /\ os[id].owner = order.owner
                      /\ os[id].client_order_id = order.client_order_id}

\* C29: client order ids are unique per owner among live orders.  A
\* placement whose owner and client_order_id are those of a resting order is
\* refused and changes nothing, and no two resting orders share owner and
\* client_order_id.
C29_ClientOrderIdsUnique ==
  /\ \A id \in DOMAIN orders : SameClientOrder(orders, orders[id]) = {id}
  /\ (last.op = "place" /\ SameClientOrder(last.before.orders, last.request) # {})
       => ~last.ok /\ Book = last.before

\* the GTT order with id `id` has just been left resting in the book
RestedGTT(id) ==
  /\ Completed
  /\ last.rested
  /\ last.request.time_in_force = GoodTillTime
  /\ last.request.order_id = id

\* C30: GTT expiry.  A GTT order that rests is in the end swept from the
\* book: the clock passes its expiry_timestamp, and from then on the order
\* does not stay.
C30_ExpiredOrdersSwept ==
  \A id \in OrderIds : RestedGTT(id) ~> (id \notin DOMAIN orders)

----------------------------------------------------------------------------
(* What the handlers answer *)

\* place_order_handler's reply to an accepted placement: `result` is the
\* Order the handler built from the request, and the trades the engine
\* returned are bound to _trades and dropped
place_order_response(order, trades) ==
  [jsonrpc |-> "2.0", id |-> 1, result |-> order, trades |-> <<>>]

\* C31: PlaceOrder's result matches the book.  The order returned for an
\* accepted placement has the status and the remaining_quantity the order
\* has after matching, the reply carries the trades executed, and where the
\* order rests the book holds it with that status and remaining quantity.
C31_ResultMatchesBook ==
  Completed =>
    /\ place_order_response(last.request, last.trades).result.status = last.order.status
    /\ place_order_response(last.request, last.trades).result.remaining_quantity
         = last.order.remaining_quantity
    /\ place_order_response(last.request, last.trades).trades = last.trades
    /\ last.rested
         => /\ last.request.order_id \in DOMAIN orders
            /\ orders[last.request.order_id].status
                 = place_order_response(last.request, last.trades).result.status
            /\ orders[last.request.order_id].remaining_quantity
                 = place_order_response(last.request, last.trades).result.remaining_quantity

----------------------------------------------------------------------------
(* The on-chain program svm_clob *)

\* orders created on chain in one run
MaxChainOrders == 2

\* the u8 an enum value is stored as in an account (`OrderStatus::Filled as u8`)
StatusU8(status) ==
  CASE status = Open -> 0 [] status = PartiallyFilled -> 1 [] status = Filled -> 2
    [] status = Cancelled -> 3 [] status = Expired -> 4

SideU8(side) == IF side = Bid THEN 0 ELSE 1

BehaviorU8(behavior) ==
  CASE behavior = DecrementAndCancel -> 0 [] behavior = CancelProvide -> 1
    [] behavior = CancelTake -> 2 [] behavior = CancelBoth -> 3

\* The accounts an instruction is handed.  An instruction that returns Err is
\* rolled back by the runtime: its result carries the accounts as they were.
Chain ==
  [orders |-> order_accounts, users |-> user_accounts, orderbook |-> orderbook_account]

ChainOk(c) == [ok |-> TRUE, err |-> "", chain |-> c]
ChainErr(e, c) == [ok |-> FALSE, err |-> e, chain |-> c]

\* place_order.  `order` (line 167) and `orderbook` (line 127) are RefMut
\* guards bound for the whole body, so once validation has passed the
\* instruction reaches `ctx.accounts.order.load()?` (line 201) with the Order
\* account still mutably borrowed, if match_against_book has not failed on
\* the same borrow before: load() returns AccountBorrowFailed, the
\* instruction fails and nothing it wrote is kept.  Users hold the balance
\* the order needs.
svm_clob_place_order(c, user, side, order_type, price, quantity) ==
  IF order_type # 1 /\ price = 0 THEN ChainErr("InvalidPrice", c)
  ELSE IF quantity = 0 THEN ChainErr("InvalidQuantity", c)
  ELSE IF quantity < min_order_size THEN ChainErr("OrderSizeBelowMinimum", c)
  ELSE IF price % tick_size # 0 THEN ChainErr("PriceNotAlignedToTickSize", c)
  ELSE ChainErr("AccountBorrowFailed", c)

\* the two matching helpers of match_order return the quantity they were given
match_against_asks(remaining_quantity) == remaining_quantity
match_against_bids(remaining_quantity) == remaining_quantity

\* match_order: the taker's Order account is created (its address is derived
\* from a client_order_id the taker has not used) and numbered with the next
\* sequence number
svm_clob_match_order(c, taker, side, price, quantity, self_trade_behavior) ==
  IF quantity = 0 THEN ChainErr("InvalidQuantity", c)
  ELSE
    LET order_id == c.orderbook.sequence_number + 1
        remaining_quantity == IF side = 0 THEN match_against_asks(quantity)
                              ELSE match_against_bids(quantity)
        total_matched == quantity - remaining_quantity
        taker_order ==
          [order_id |-> order_id, owner |-> taker, price |-> price,
           quantity |-> quantity, remaining_quantity |-> remaining_quantity,
           side |-> side,
           status |-> IF remaining_quantity = 0 THEN 2
                      ELSE IF total_matched > 0 THEN 1 ELSE 0,
           self_trade_behavior |-> self_trade_behavior]
    IN  ChainOk([orders |-> With(c.orders, order_id, taker_order),
                 users |-> [c.users EXCEPT ![taker].open_orders_count =
                              @ + (IF remaining_quantity > 0 THEN 1 ELSE 0)],
                 orderbook |-> [c.orderbook EXCEPT !.sequence_number = order_id]])

\* cancel_order, signed by `user`: the Order and UserAccount addresses are
\* derived from the signer's key
svm_clob_cancel_order(c, user, order_id) ==
  LET order == c.orders[order_id]
  IN  IF order.owner # user THEN ChainErr("Unauthorized", c)
      ELSE IF ~(order.status = 0 \/ order.status = 1) THEN ChainErr("OrderNotFound", c)
      ELSE ChainOk([c EXCEPT
             !.orders[order_id].status = 3,
             !.users[user].open_orders_count = IF @ > 0 THEN @ - 1 ELSE @])

\* modify_order, signed by `user`
svm_clob_modify_order(c, user, order_id, new_price, new_quantity) ==
  LET order == c.orders[order_id]
      filled_quantity == order.quantity - order.remaining_quantity
      priced == IF new_price.some THEN [order EXCEPT !.price = new_price.value]
                ELSE order
      sized == IF new_quantity.some
               THEN [priced EXCEPT !.quantity = new_quantity.value,
                                   !.remaining_quantity = new_quantity.value - filled_quantity]
               ELSE priced
  IN  IF order.owner # user THEN ChainErr("Unauthorized", c)
      ELSE IF ~(order.status = 0 \/ order.status = 1) THEN ChainErr("OrderNotFound", c)
      ELSE IF new_price.some /\ ~(new_price.value > 0) THEN ChainErr("InvalidPrice", c)
      ELSE IF new_price.some /\ new_price.value % tick_size # 0
        THEN ChainErr("PriceNotAlignedToTickSize", c)
      ELSE IF new_quantity.some /\ ~(new_quantity.value > 0)
        THEN ChainErr("InvalidQuantity", c)
      ELSE IF new_quantity.some /\ ~(new_quantity.value >= min_order_size)
        THEN ChainErr("OrderSizeBelowMinimum", c)
      ELSE IF new_quantity.some /\ ~(new_quantity.value >= filled_quantity)
        THEN ChainErr("InvalidQuantity", c)
      ELSE ChainOk([c EXCEPT !.orders[order_id] = sized])

update_best_prices(orderbook, side, price) ==
  IF side = 0
  THEN IF price > orderbook.best_bid THEN [orderbook EXCEPT !.best_bid = price]
       ELSE orderbook
  ELSE IF price < orderbook.best_ask THEN [orderbook EXCEPT !.best_ask = price]
       ELSE orderbook

\* execute_trade.  No account signs and nothing ties the two UserAccounts to
\* the owners of the two orders: any caller hands it any four accounts.  The
\* same account handed twice fails at its second load_mut().
svm_clob_execute_trade(c, maker_order_id, taker_order_id, maker_user, taker_user, execution_quantity) ==
  LET maker_order == c.orders[maker_order_id]
      taker_order == c.orders[taker_order_id]
      maker_left == maker_order.remaining_quantity - execution_quantity
      taker_left == taker_order.remaining_quantity - execution_quantity
      smaller_qty == Min(execution_quantity,
                         Min(maker_order.remaining_quantity, taker_order.remaining_quantity))
      maker_filled == [c EXCEPT
        !.orders[maker_order_id].remaining_quantity = maker_left,
        !.orders[maker_order_id].status = IF maker_left = 0 THEN 2 ELSE 1,
        !.users[maker_user].open_orders_count =
           IF maker_left = 0 /\ @ > 0 THEN @ - 1 ELSE @]
      both_filled == [maker_filled EXCEPT
        !.orders[taker_order_id].remaining_quantity = taker_left,
        !.orders[taker_order_id].status = IF taker_left = 0 THEN 2 ELSE 1,
        !.users[taker_user].open_orders_count =
           IF taker_left = 0 /\ @ > 0 THEN @ - 1 ELSE @]
  IN  IF maker_order_id = taker_order_id \/ maker_user = taker_user
        THEN ChainErr("AccountBorrowFailed", c)
      ELSE IF ~(maker_order.status <= 1) \/ ~(taker_order.status <= 1)
        THEN ChainErr("OrderNotFound", c)
      ELSE IF ~(execution_quantity > 0)
              \/ ~(execution_quantity <= maker_order.remaining_quantity)
              \/ ~(execution_quantity <= taker_order.remaining_quantity)
        THEN ChainErr("InvalidQuantity", c)
      ELSE IF maker_order.owner = taker_order.owner
        THEN CASE maker_order.self_trade_behavior = 0 ->
                    ChainOk([c EXCEPT
                      !.orders[maker_order_id].remaining_quantity = @ - smaller_qty,
                      !.orders[taker_order_id].remaining_quantity = @ - smaller_qty])
               [] maker_order.self_trade_behavior = 1 ->
                    ChainOk([c EXCEPT !.orders[maker_order_id].status = 3])
               [] maker_order.self_trade_behavior = 2 ->
                    ChainOk([c EXCEPT !.orders[taker_order_id].status = 3])
               [] OTHER -> ChainErr("SelfTradeDetected", c)
      ELSE ChainOk([both_filled EXCEPT
             !.orderbook = update_best_prices(@, maker_order.side, maker_order.price)])

\* the runtime commits what the instruction returned
Processed(op, order_id, res) ==
  /\ order_accounts' = res.chain.orders
  /\ user_accounts' = res.chain.users
  /\ orderbook_account' = res.chain.orderbook
  /\ chain_last' = [op |-> op, ok |-> res.ok, err |-> res.err, order_id |-> order_id,
                    before |-> IF order_id \in DOMAIN order_accounts
                               THEN order_accounts[order_id] ELSE <<>>]

chainFrame == UNCHANGED <<bookVars, now, last, taskVars, wsVars, callVars>>

\* transactions are processed one after the other
NoTransaction == chain_last.op = "none"

\* the outcome of the transaction is returned to its sender
Confirmed ==
  /\ ~NoTransaction
  /\ chain_last' = NoInstruction
  /\ UNCHANGED <<order_accounts, user_accounts, orderbook_account>>
  /\ chainFrame

PlaceOrderIx ==
  /\ NoTransaction
  /\ \E user \in Owners, side \in {SideU8(s) : s \in OrderSide},
        price \in 0..MaxPrice, quantity \in 0..MaxQty :
       Processed("place_order", 0, svm_clob_place_order(Chain, user, side, 0, price, quantity))
  /\ chainFrame

\* orders are created at one tick and MaxQty lots; modify_order and
\* execute_trade then move them to the other prices and quantities.  A maker
\* set to CancelBoth only makes execute_trade fail.
MatchOrderIx ==
  /\ NoTransaction
  /\ orderbook_account.sequence_number < MaxChainOrders
  /\ \E taker \in Owners, side \in {SideU8(s) : s \in OrderSide},
        price \in {tick_size}, quantity \in {0, MaxQty},
        self_trade_behavior \in {BehaviorU8(b) : b \in SelfTradeBehavior \ {CancelBoth}} :
       Processed("match_order", orderbook_account.sequence_number + 1,
                 svm_clob_match_order(Chain, taker, side, price, quantity,
                                      self_trade_behavior))
  /\ chainFrame

CancelOrderIx ==
  /\ NoTransaction
  /\ \E user \in Owners, order_id \in DOMAIN order_accounts :
       Processed("cancel_order", order_id, svm_clob_cancel_order(Chain, user, order_id))
  /\ chainFrame

ModifyOrderIx ==
  /\ NoTransaction
  /\ \E user \in Owners, order_id \in DOMAIN order_accounts,
        new_price \in {None} \cup {Some(p) : p \in 0..MaxPrice},
        new_quantity \in {None} \cup {Some(q) : q \in 0..MaxQty} :
       Processed("modify_order", order_id,
                 svm_clob_modify_order(Chain, user, order_id, new_price, new_quantity))
  /\ chainFrame

ExecuteTradeIx ==
  /\ NoTransaction
  /\ \E maker_order_id \in DOMAIN order_accounts, taker_order_id \in DOMAIN order_accounts,
        maker_user \in Owners, taker_user \in Owners, execution_quantity \in 0..MaxQty :
       Processed("execute_trade", maker_order_id,
                 svm_clob_execute_trade(Chain, maker_order_id, taker_order_id,
                                        maker_user, taker_user, execution_quantity))
  /\ chainFrame

ChainNext ==
  PlaceOrderIx \/ MatchOrderIx \/ CancelOrderIx \/ ModifyOrderIx \/ ExecuteTradeIx
    \/ Confirmed

ChainSpec == Init /\ [][ChainNext]_vars

----------------------------------------------------------------------------
(* The on-chain order records *)

\* the orders of a side that are live at a price
LiveAt(os, side, price) ==
  {i \in DOMAIN os : os[i].side = side /\ os[i].price = price /\ os[i].status <= 1}

\* modify_order has changed an order
Modified == chain_last.op = "modify_order" /\ chain_last.ok

\* C32: a modify that changes an order's price or increases its quantity puts
\* the order behind every order already live at its (new) price, as a cancel
\* followed by a re-post under a new sequence number would: each of them has
\* the smaller sequence position.  A modify that only decreases the quantity
\* leaves the order's sequence position as it was.
C32_ModifyAndTimePriority ==
  Modified =>
    LET id == chain_last.order_id
        order == order_accounts[id]
    IN  IF order.price # chain_last.before.price
           \/ order.quantity > chain_last.before.quantity
        THEN \A i \in LiveAt(order_accounts, order.side, order.price) \ {id} :
               order_accounts[i].order_id < order.order_id
        ELSE order.order_id = chain_last.before.order_id

\* C39: every on-chain order has remaining_quantity <= quantity and is Filled
\* exactly when nothing of it remains, and modify_order leaves the filled
\* amount (quantity - remaining_quantity) as it was.
C39_OrderRecordsConsistent ==
  /\ \A i \in DOMAIN order_accounts :
       /\ order_accounts[i].remaining_quantity <= order_accounts[i].quantity
       /\ order_accounts[i].status = StatusU8(Filled)
            <=> order_accounts[i].remaining_quantity = 0
  /\ Modified =>
       order_accounts[chain_last.order_id].quantity
           - order_accounts[chain_last.order_id].remaining_quantity
         = chain_last.before.quantity - chain_last.before.remaining_quantity

\* the orders of a user that are Open or PartiallyFilled
OpenOrdersOf(os, user) == {i \in DOMAIN os : os[i].owner = user /\ os[i].status <= 1}

\* C40: each user account's open_orders_count is the number of that user's
\* orders that are Open or PartiallyFilled (and so never below zero).
C40_OpenOrdersCountExact ==
  \A user \in Owners :
    user_accounts[user].open_orders_count
      = Cardinality(OpenOrdersOf(order_accounts, user))

----------------------------------------------------------------------------
(* Refused placements *)

\* the errors validate_order returns
ValidationErrors ==
  {"OrderSizeBelowMinimum", "PriceNotAlignedToTickSize", "OrderbookPaused", "OrderExpired"}

----------------------------------------------------------------------------
(* Orders priced at zero *)

\* limit and PostOnly orders priced from 0 ticks up
LowPricedRequests ==
  Req({Limit, PostOnly}, 0..MaxPrice, 1..MaxQty, {GoodTillCancelled}, {0},
      {DecrementAndCancel})

PlaceLowPriced ==
  /\ Idle
  /\ Cardinality(DOMAIN orders) < MaxResting
  /\ \E iter \in IterationOrders(Book), order_id \in generate_order_id(Book),
        request \in LowPricedRequests :
       place_order_handler(request, order_id, iter)
  /\ UNCHANGED <<taskVars, wsVars, chainVars, callVars>>

LowPriceNext == PlaceLowPriced \/ CancelOrder \/ Respond

LowPriceSpec == Init /\ [][LowPriceNext]_vars

\* C34: a Limit or PostOnly order priced 0 is refused by validation, and no
\* order priced 0 rests in the book nor is there a level at price 0.
C34_ZeroPriceRefused ==
  /\ (/\ last.op = "place"
      /\ last.request.order_type \in {Limit, PostOnly}
      /\ last.request.price = 0)
       => (~last.ok /\ last.err \in ValidationErrors)
  /\ \A id \in DOMAIN orders : orders[id].price # 0
  /\ 0 \notin DOMAIN bid_levels \cup DOMAIN ask_levels

----------------------------------------------------------------------------
(* The price levels and the id index *)

\* the level map of a side holds no empty level, and has a level wherever
\* an order of that side rests
LevelsLive(os, lv, side) ==
  /\ \A p \in DOMAIN lv :
       /\ lv[p].order_count >= 1
       /\ lv[p].quantity > 0
       /\ IdsAt(os, side, p) # {}
  /\ \A id \in DOMAIN os :
       (os[id].side = side /\ os[id].remaining_quantity > 0) => os[id].price \in DOMAIN lv

\* C35: no empty price level is observable: every level of the bid and ask
\* maps has order_count >= 1 and quantity > 0 and an order resting at its
\* price, and every order with remaining quantity has its level.
C35_NoEmptyLevel ==
  /\ LevelsLive(orders, bid_levels, Bid)
  /\ LevelsLive(orders, ask_levels, Ask)

\* C36: adding an order under an id that is already in the book is refused
\* and changes nothing.  A placement that met no resting order reaches
\* add_order with the book it was given: when its id is in that book, the
\* order does not rest, and the id index, both level maps and
\* sequence_number are what they were, the first order included.
C36_DuplicateIdRefused ==
  (/\ last.op = "place"
   /\ last.steps = <<>>
   /\ last.request.order_id \in DOMAIN last.before.orders)
    => /\ ~last.rested
       /\ last.err \in {"", "DuplicateOrderId", "PostOnlyOrderWouldMatch"} \cup ValidationErrors
       /\ Book = last.before

----------------------------------------------------------------------------
(* The book called step by step: the id index is a DashMap *)

\* The id index hands out its entries under a lock: get_mut returns a RefMut
\* that holds the entry's shard write-locked until it is dropped, and remove
\* takes the same lock.  The lock is not reentrant: a remove of an id whose
\* entry the calling thread holds waits for that thread.  The engine's
\* operators above describe what the statements of a function write; here
\* one thread calls the book and each wait on the index is a step.
index_available(guard, order_id) == guard # order_id

callFrame == UNCHANGED <<now, last, taskVars, wsVars, chainVars>>

NoBookCall == call.fn = "none"

\* limit orders that rest
BookOrders ==
  Req({Limit}, 1..MaxPrice, 1..MaxQty, {GoodTillCancelled}, {0}, {DecrementAndCancel})

\* add_order takes no entry of the index: it returns at once
BookAdd ==
  /\ NoBookCall
  /\ Cardinality(DOMAIN orders) < MaxResting
  /\ sequence_number < MaxSeq
  /\ \E request \in BookOrders :
       SetBook(add_order(Book, NewOrder(request, FreshId(Book), now)).book)
  /\ UNCHANGED callVars
  /\ callFrame

\* update_order_quantity up to its last branch.  With an unknown id it returns
\* OrderNotFound.  With a quantity that is left, it sets the order and its
\* level, bumps sequence_number and returns; order_ref is dropped.  With
\* nothing left, it has reduced the level and set the order Filled, and
\* calls remove_order with order_ref alive.
UpdateEnter ==
  /\ NoBookCall
  /\ sequence_number < MaxSeq
  /\ \E order_id \in OrderIds, new_remaining_quantity \in 0..MaxQty :
       /\ order_id \in DOMAIN orders => new_remaining_quantity <= orders[order_id].remaining_quantity
       /\ IF order_id \in DOMAIN orders /\ new_remaining_quantity = 0
          THEN /\ SetBook([SetLevels(Book, orders[order_id].side,
                                     LevelReduce(LevelsOf(Book, orders[order_id].side),
                                                 orders[order_id].price,
                                                 orders[order_id].remaining_quantity))
                             EXCEPT !.orders[order_id].remaining_quantity = 0,
                                    !.orders[order_id].status = Filled])
               /\ entry_guard' = order_id
               /\ call' = [fn |-> "update_order_quantity", pc |-> "remove_order",
                           order_id |-> order_id, new_remaining_quantity |-> 0,
                           ok |-> TRUE, err |-> ""]
          ELSE /\ SetBook(update_order_quantity(Book, order_id, new_remaining_quantity).book)
               /\ UNCHANGED entry_guard
               /\ call' = [fn |-> "update_order_quantity", pc |-> "returned",
                           order_id |-> order_id,
                           new_remaining_quantity |-> new_remaining_quantity,
                           ok |-> update_order_quantity(Book, order_id,
                                                        new_remaining_quantity).ok,
                           err |-> update_order_quantity(Book, order_id,
                                                         new_remaining_quantity).err]
  /\ callFrame

\* remove_order called by the caller of the book (as cancel_order does)
RemoveEnter ==
  /\ NoBookCall
  /\ sequence_number < MaxSeq
  /\ \E order_id \in OrderIds :
       call' = [fn |-> "remove_order", pc |-> "remove_order", order_id |-> order_id,
                new_remaining_quantity |-> 0, ok |-> TRUE, err |-> ""]
  /\ UNCHANGED <<bookVars, entry_guard>>
  /\ callFrame

\* remove_order: self.orders.remove(&order_id) once the entry is free, then
\* the level and sequence_number; back in update_order_quantity the `?`
\* passes an Err on, else sequence_number is bumped, and order_ref is dropped
Removed(r) ==
  /\ SetBook(IF r.ok /\ call.fn = "update_order_quantity"
             THEN [r.book EXCEPT !.sequence_number = r.book.sequence_number + 1]
             ELSE r.book)
  /\ call' = [call EXCEPT !.pc = "returned", !.ok = r.ok, !.err = r.err]
  /\ entry_guard' = 0

RemoveEntry ==
  /\ call.pc = "remove_order"
  /\ index_available(entry_guard, call.order_id)
  /\ Removed(remove_order(Book, call.order_id))
  /\ callFrame

\* the call has returned to the caller of the book
CallReturn ==
  /\ call.pc = "returned"
  /\ call' = NoCall
  /\ UNCHANGED <<bookVars, entry_guard>>
  /\ callFrame

BookNext == BookAdd \/ UpdateEnter \/ RemoveEnter \/ RemoveEntry \/ CallReturn

\* the thread that calls the book runs on whenever it can
BookSpec ==
  Init /\ [][BookNext]_vars /\ WF_vars(RemoveEntry) /\ WF_vars(CallReturn)

\* a complete fill has reached its call of remove_order
CompleteFillAt(id) ==
  /\ call.fn = "update_order_quantity"
  /\ call.new_remaining_quantity = 0
  /\ call.order_id = id
  /\ call.pc = "remove_order"

\* the call has returned Ok with the order gone from the index and from the
\* count of its level
CompleteFillDone(id) ==
  /\ call.fn = "update_order_quantity"
  /\ call.order_id = id
  /\ call.pc = "returned"
  /\ call.ok
  /\ id \notin DOMAIN orders
  /\ \A side \in OrderSide : \A p \in DOMAIN LevelsOf(Book, side) :
       LevelsOf(Book, side)[p].order_count = Cardinality(IdsAt(orders, side, p))

\* C37: a complete fill of a maker finishes: update_order_quantity called
\* with new_remaining_quantity = 0 returns, and then the order is absent
\* from the id index and its level no longer counts it.
C37_CompleteFillReturns ==
  \A id \in OrderIds : CompleteFillAt(id) ~> CompleteFillDone(id)

----------------------------------------------------------------------------
(* Market statistics *)

RECURSIVE SumLevelQuantity(_, _)
\* values().map(|l| l.quantity).sum() over the levels at the prices S
SumLevelQuantity(lv, S) ==
  IF S = {} THEN 0
  ELSE LET p == CHOOSE x \in S : TRUE
       IN  lv[p].quantity + SumLevelQuantity(lv, S \ {p})

RECURSIVE SumLevelOrders(_, _)
\* values().map(|l| l.order_count as u64).sum() over the levels at the prices S
SumLevelOrders(lv, S) ==
  IF S = {} THEN 0
  ELSE LET p == CHOOSE x \in S : TRUE
       IN  lv[p].order_count + SumLevelOrders(lv, S \ {p})

\* `ask - bid` on u64 (u64::MAX is U64Max here): below zero it wraps in a
\* release build and panics in a debug build; `wrapped` tells which results
\* are of that kind
spread_u64(bid, ask) ==
  [some |-> TRUE, value |-> (ask - bid + U64Max + 1) % (U64Max + 1), wrapped |-> ask < bid]

get_market_stats(b) ==
  [best_bid |-> get_best_bid(b),
   best_ask |-> get_best_ask(b),
   spread |-> IF get_best_bid(b).some /\ get_best_ask(b).some
              THEN spread_u64(get_best_bid(b).value, get_best_ask(b).value)
              ELSE [some |-> FALSE, value |-> 0, wrapped |-> FALSE],
   total_bid_orders |-> SumLevelOrders(b.bid_levels, DOMAIN b.bid_levels),
   total_ask_orders |-> SumLevelOrders(b.ask_levels, DOMAIN b.ask_levels),
   total_bid_quantity |-> SumLevelQuantity(b.bid_levels, DOMAIN b.bid_levels),
   total_ask_quantity |-> SumLevelQuantity(b.ask_levels, DOMAIN b.ask_levels),
   price_levels_count |-> Cardinality(DOMAIN b.bid_levels) + Cardinality(DOMAIN b.ask_levels)]

\* the resting orders of a side
IdsOf(os, side) == {id \in DOMAIN os : os[id].side = side}

\* C38: get_market_stats never underflows: when the book has a best bid and
\* a best ask, best_ask >= best_bid and the spread is their difference; and
\* the order and quantity totals it reports are the sums over the resting
\* orders of each side.
C38_MarketStatsSound ==
  /\ get_market_stats(Book).spread.some =>
       /\ get_market_stats(Book).best_ask.value >= get_market_stats(Book).best_bid.value
       /\ ~get_market_stats(Book).spread.wrapped
  /\ get_market_stats(Book).total_bid_orders = Cardinality(IdsOf(orders, Bid))
  /\ get_market_stats(Book).total_ask_orders = Cardinality(IdsOf(orders, Ask))
  /\ get_market_stats(Book).total_bid_quantity = RestingQuantity(orders, IdsOf(orders, Bid))
  /\ get_market_stats(Book).total_ask_quantity = RestingQuantity(orders, IdsOf(orders, Ask))

====
